---------------------------- MODULE Spec2Model ----------------------------
(***************************************************************************)
(* Model of the rotation-aware transformation hook (useTransformationFrames) *)
(* with its coordinate helpers and hover-zone classifier.                   *)
(*                                                                         *)
(* Numbers.  A JavaScript number is modelled as an exact rational <<n, d>>  *)
(* in lowest terms with d > 0, so the arithmetic of the handlers is carried *)
(* out without rounding.  Angles in radians are measured in units of pi:    *)
(* Math.PI is the rational 1, and rotation * (Math.PI / 180) is             *)
(* rotation / 180.                                                          *)
(***************************************************************************)
EXTENDS Integers, Sequences, FiniteSets, TLC

(***************************************************************************)
(* Exact rational arithmetic (the JavaScript operators + - * / < <= on      *)
(* finite numbers).                                                         *)
(***************************************************************************)
RECURSIVE GCD(_, _)
GCD(a, b) == IF b = 0 THEN a ELSE GCD(b, a % b)

IAbs(n) == IF n < 0 THEN -n ELSE n

QReduce(n, d, g) ==
  IF d < 0 THEN <<(-n) \div g, (-d) \div g>> ELSE <<n \div g, d \div g>>

\* n / d in lowest terms, the denominator positive
Q(n, d) == QReduce(n, d, GCD(IAbs(n), IAbs(d)))

QI(n) == <<n, 1>>

\* the operands are in lowest terms; common factors are taken out before the
\* products, which keeps them small
QAddOver(a, b, g) ==
  Q(a[1] * (b[2] \div g) + b[1] * (a[2] \div g), (a[2] \div g) * b[2])
QAdd(a, b) == QAddOver(a, b, GCD(a[2], b[2]))
QNeg(a) == <<-a[1], a[2]>>
QSub(a, b) == QAdd(a, QNeg(b))
QMulOver(a, b, g, h) ==
  Q((a[1] \div g) * (b[1] \div h), (a[2] \div h) * (b[2] \div g))
QMul(a, b) == QMulOver(a, b, GCD(IAbs(a[1]), b[2]), GCD(IAbs(b[1]), a[2]))
QDiv(a, b) == QMul(a, IF b[1] < 0 THEN <<-b[2], -b[1]>> ELSE <<b[2], b[1]>>)
QLtOver(a, b, g) == a[1] * (b[2] \div g) < b[1] * (a[2] \div g)
QLt(a, b) == QLtOver(a, b, GCD(a[2], b[2]))
QLe(a, b) == ~QLt(b, a)
QIsZero(a) == a[1] = 0
QHalf(a) == Q(a[1], 2 * a[2])

\* Math.abs
MathAbs(a) == <<IAbs(a[1]), a[2]>>

\* Math.floor; \div rounds towards minus infinity
MathFloor(a) == a[1] \div a[2]

\* Math.round: the nearest integer, a tie going up
MathRound(a) == MathFloor(QAdd(a, <<1, 2>>))

\* Math.trunc, as the % operator of JavaScript uses it
Trunc(a) == IF a[1] < 0 THEN -((-a[1]) \div a[2]) ELSE a[1] \div a[2]

\* a % m of JavaScript: the remainder has the sign of the dividend
JsMod(a, m) == QSub(a, QMul(m, QI(Trunc(QDiv(a, m)))))

\* Math.pow(2, k) for an integer k
RECURSIVE Pow2(_)
Pow2(k) == IF k = 0 THEN <<1, 1>>
           ELSE IF k > 0 THEN QMul(<<2, 1>>, Pow2(k - 1))
           ELSE QMul(<<1, 2>>, Pow2(k + 1))

\* Math.PI, in units of pi
MathPI == <<1, 1>>

(***************************************************************************)
(* Math.cos and Math.sin.  The model knows them on the angles whose cosine  *)
(* and sine are rational: the quarter turns, and the quarter turns of the   *)
(* two acute angles of the 3-4-5 triangle, written 36.87 and 53.13 degrees. *)
(* An angle is reduced to a quarter q and a remainder in [0, 1/2).          *)
(***************************************************************************)
\* 36.87 / 180 and 53.13 / 180, in lowest terms
Alpha == <<1229, 6000>>
Beta == <<1771, 6000>>

\* a modulo 2, its quarter, and what is left of it beyond the quarter
AngleTurn(a) == Q(a[1] % (2 * a[2]), a[2])
AngleQuarter(a) == (2 * (a[1] % (2 * a[2]))) \div a[2]
AngleRest(a) == Q(2 * (a[1] % (2 * a[2])) - AngleQuarter(a) * a[2], 2 * a[2])

BaseCos(r) == CASE r = <<0, 1>> -> <<1, 1>>
                [] r = Alpha -> <<4, 5>>
                [] r = Beta -> <<3, 5>>
BaseSin(r) == CASE r = <<0, 1>> -> <<0, 1>>
                [] r = Alpha -> <<3, 5>>
                [] r = Beta -> <<4, 5>>

\* the cosine and the sine of quarter q plus the remainder r
CosOfQuarter(q, r) ==
  CASE q = 0 -> BaseCos(r)
    [] q = 1 -> QNeg(BaseSin(r))
    [] q = 2 -> QNeg(BaseCos(r))
    [] q = 3 -> BaseSin(r)

SinOfQuarter(q, r) ==
  CASE q = 0 -> BaseSin(r)
    [] q = 1 -> BaseCos(r)
    [] q = 2 -> QNeg(BaseSin(r))
    [] q = 3 -> QNeg(BaseCos(r))

MathCos(a) == CosOfQuarter(AngleQuarter(a), AngleRest(a))

MathSin(a) == SinOfQuarter(AngleQuarter(a), AngleRest(a))

\* the rotations (degrees) on which MathCos and MathSin are known
ExactRotation(deg) ==
  AngleRest(QDiv(deg, <<180, 1>>)) \in {<<0, 1>>, Alpha, Beta}

(***************************************************************************)
(* Math.atan2(y, x) in units of pi.  The arctangent of a ratio t in [0, 1]  *)
(* is taken, in degrees, as 45 t + t (1 - t) (14.02 + 3.80 t) rounded to a  *)
(* hundredth of a degree (within 0.1 degree of the true value, exact at 0   *)
(* and 45 degrees); the octants are folded as atan2 folds them, so that a   *)
(* quarter turn of the vector adds exactly a quarter turn to the angle.     *)
(***************************************************************************)
ArcTanDeg(t) ==
  LET lin == QMul(<<45, 1>>, t)
      cor == QMul(QMul(t, QSub(<<1, 1>>, t)),
                  QAdd(<<1402, 100>>, QMul(<<380, 100>>, t)))
  IN  Q(MathRound(QMul(<<100, 1>>, QAdd(lin, cor))), 100)

FirstQuadrantDeg(ay, ax) ==
  IF QIsZero(ay) THEN <<0, 1>>
  ELSE IF QLe(ay, ax) THEN ArcTanDeg(QDiv(ay, ax))
  ELSE QSub(<<90, 1>>, ArcTanDeg(QDiv(ax, ay)))

\* the angle in degrees of the vector (x, y) whose first-quadrant fold is at a
FoldedDeg(y, x, a) ==
  IF x[1] >= 0
  THEN (IF y[1] >= 0 THEN a ELSE QNeg(a))
  ELSE (IF y[1] >= 0 THEN QSub(<<180, 1>>, a) ELSE QSub(a, <<180, 1>>))

MathAtan2(y, x) ==
  QDiv(FoldedDeg(y, x, FirstQuadrantDeg(MathAbs(y), MathAbs(x))), <<180, 1>>)

(***************************************************************************)
(* class Vec                                                               *)
(***************************************************************************)
Vec(x, y) == [x |-> x, y |-> y]
VecAdd(a, b) == Vec(QAdd(a.x, b.x), QAdd(a.y, b.y))
VecSub(a, b) == Vec(QSub(a.x, b.x), QSub(a.y, b.y))
VecRotBy(vec, cos, sin) ==
  Vec(QSub(QMul(vec.x, cos), QMul(vec.y, sin)),
      QAdd(QMul(vec.x, sin), QMul(vec.y, cos)))
VecRot(vec, angle) == VecRotBy(vec, MathCos(angle), MathSin(angle))
VecRotWith(point, origin, angle) ==
  VecAdd(VecRot(VecSub(point, origin), angle), origin)

(***************************************************************************)
(* utils/coordinates                                                       *)
(***************************************************************************)
\* null or undefined where a structured value or a number may stand, and where a
\* string may stand
Null == <<>>
Undefined == "undefined"

\* a projection whose scale is that of zoom 8 at every zoom: distances on the
\* screen are then world distances times 400, whatever the view
worldToScreenAtZoom8(worldPos, viewState, canvasElement) ==
  IF canvasElement = Null THEN Null
  ELSE Vec(QAdd(QHalf(canvasElement.width),
                QMul(QSub(worldPos[1], viewState.longitude), <<400, 1>>)),
           QSub(QHalf(canvasElement.height),
                QMul(QSub(worldPos[2], viewState.latitude), <<400, 1>>)))

\* worldToScreen; canvasElement is Null or the size getBoundingClientRect gives
worldToScreen(worldPos, viewState, canvasElement) ==
  IF canvasElement = Null THEN Null
  ELSE LET centerX == QHalf(canvasElement.width)
           centerY == QHalf(canvasElement.height)
           scale == QMul(Pow2(viewState.zoom - 8), <<400, 1>>)
       IN  Vec(QAdd(centerX, QMul(QSub(worldPos[1], viewState.longitude), scale)),
               QSub(centerY, QMul(QSub(worldPos[2], viewState.latitude), scale)))

\* isPointInsideLayer
\* (x, y) turned about the centre by the angle of the given cosine and sine:
\* dx * cos - dy * sin + centerX, dx * sin + dy * cos + centerY
turnedBy(dx, dy, centerX, centerY, cos, sin) ==
  <<QAdd(QSub(QMul(dx, cos), QMul(dy, sin)), centerX),
    QAdd(QAdd(QMul(dx, sin), QMul(dy, cos)), centerY)>>

turnAbout(x, y, centerX, centerY, cos, sin) ==
  turnedBy(QSub(x, centerX), QSub(y, centerY), centerX, centerY, cos, sin)

\* the test of the point, turned back, against the unrotated rectangle
isInsideUnrotated(layer, local) ==
  /\ QLe(layer.x, local[1])
  /\ QLe(local[1], QAdd(layer.x, layer.width))
  /\ QLe(layer.y, local[2])
  /\ QLe(local[2], QAdd(layer.y, layer.height))

\* isPointInsideLayer
isPointInsideLayer(layer, worldX, worldY) ==
  LET centerX == QAdd(layer.x, QHalf(layer.width))
      centerY == QAdd(layer.y, QHalf(layer.height))
      rad == QNeg(QDiv(QMul(layer.rotation, MathPI), <<180, 1>>))
  IN  isInsideUnrotated(layer, turnAbout(worldX, worldY, centerX, centerY,
                                         MathCos(rad), MathSin(rad)))

\* getRotatedPolygon: the four corners, in the order of the source
rotatedCorners(layer, centerX, centerY, cos, sin) ==
  <<turnAbout(layer.x, layer.y, centerX, centerY, cos, sin),
    turnAbout(QAdd(layer.x, layer.width), layer.y, centerX, centerY, cos, sin),
    turnAbout(QAdd(layer.x, layer.width), QAdd(layer.y, layer.height),
              centerX, centerY, cos, sin),
    turnAbout(layer.x, QAdd(layer.y, layer.height), centerX, centerY, cos, sin)>>

getRotatedPolygon(layer) ==
  LET centerX == QAdd(layer.x, QHalf(layer.width))
      centerY == QAdd(layer.y, QHalf(layer.height))
      rad == QDiv(QMul(layer.rotation, MathPI), <<180, 1>>)
  IN  rotatedCorners(layer, centerX, centerY, MathCos(rad), MathSin(rad))

\* distanceToLineSegment, squared: the source returns Math.sqrt of this value
\* dx * dx + dy * dy
squaredLength(dx, dy) == QAdd(QMul(dx, dx), QMul(dy, dy))

\* let param = -1; if (lenSq !== 0) param = dot / lenSq;
segmentParam(dot, lenSq) == IF ~QIsZero(lenSq) THEN QDiv(dot, lenSq) ELSE <<-1, 1>>

\* one coordinate of the point of the segment nearest to the pointer
nearestOnSegment(param, v1, v2, delta) ==
  IF QLt(param, <<0, 1>>) THEN v1
  ELSE IF QLt(<<1, 1>>, param) THEN v2
  ELSE QAdd(v1, QMul(param, delta))

distanceAtParam(px, py, x1, y1, x2, y2, C, D, param) ==
  squaredLength(QSub(px, nearestOnSegment(param, x1, x2, C)),
                QSub(py, nearestOnSegment(param, y1, y2, D)))

distanceAlong(px, py, x1, y1, x2, y2, C, D) ==
  distanceAtParam(px, py, x1, y1, x2, y2, C, D,
                  segmentParam(QAdd(QMul(QSub(px, x1), C), QMul(QSub(py, y1), D)),
                               squaredLength(C, D)))

distanceToLineSegmentSq(px, py, x1, y1, x2, y2) ==
  distanceAlong(px, py, x1, y1, x2, y2, QSub(x2, x1), QSub(y2, y1))

\* Math.sqrt(sq) <= r and Math.sqrt(sq) > r, decided on the squares
SqrtLe(sq, r) == ~QLt(r, <<0, 1>>) /\ QLe(sq, QMul(r, r))
SqrtGt(sq, r) == ~SqrtLe(sq, r)

(***************************************************************************)
(* utils/hoverDetection: getHoverZone                                      *)
(***************************************************************************)
\* v || d on a number
OrElse(v, d) == IF QIsZero(v) THEN d ELSE v

cornerNames == <<"nw", "ne", "se", "sw">>
edgeNames == <<"n", "e", "s", "w">>

Zone(type, handle) == [type |-> type, handle |-> handle, zoneType |-> type]

\* the squared screen distance from the pointer to corner i
cornerDistanceSq(mouseScreen, screenCorners, i) ==
  squaredLength(QSub(mouseScreen.x, screenCorners[i].x),
                QSub(mouseScreen.y, screenCorners[i].y))

\* the squared screen distance from the pointer to edge i, which runs from
\* corner i to corner i + 1
edgeDistanceSq(mouseScreen, screenCorners, i) ==
  distanceToLineSegmentSq(mouseScreen.x, mouseScreen.y,
                          screenCorners[i].x, screenCorners[i].y,
                          screenCorners[(i % 4) + 1].x, screenCorners[(i % 4) + 1].y)

\* the first index of 1..4 whose distance is within the limit, or 0
firstWithin(distancesSq, limit) ==
  IF SqrtLe(distancesSq[1], limit) THEN 1
  ELSE IF SqrtLe(distancesSq[2], limit) THEN 2
  ELSE IF SqrtLe(distancesSq[3], limit) THEN 3
  ELSE IF SqrtLe(distancesSq[4], limit) THEN 4
  ELSE 0

\* the first index of 1..4 whose distance is beyond low and within high, or 0
firstBetween(distancesSq, low, high) ==
  IF SqrtGt(distancesSq[1], low) /\ SqrtLe(distancesSq[1], high) THEN 1
  ELSE IF SqrtGt(distancesSq[2], low) /\ SqrtLe(distancesSq[2], high) THEN 2
  ELSE IF SqrtGt(distancesSq[3], low) /\ SqrtLe(distancesSq[3], high) THEN 3
  ELSE IF SqrtGt(distancesSq[4], low) /\ SqrtLe(distancesSq[4], high) THEN 4
  ELSE 0

\* fault variant of firstMatch: the edges are tested before the corners
firstMatchEdgesFirst(c, e, r) ==
  IF e # 0 THEN Zone("resize", edgeNames[e])
  ELSE IF c # 0 THEN Zone("resize", cornerNames[c])
  ELSE IF r # 0 THEN Zone("rotate", cornerNames[r])
  ELSE Null

\* fault variant of firstMatch: the rotate zones are tested before the edges
firstMatchRotateFirst(c, e, r) ==
  IF c # 0 THEN Zone("resize", cornerNames[c])
  ELSE IF r # 0 THEN Zone("rotate", cornerNames[r])
  ELSE IF e # 0 THEN Zone("resize", edgeNames[e])
  ELSE Null

\* the order of the three loops, each returning at its first match: c, e and
\* r are the first corner within the resize distance, the first edge within
\* it, and the first corner within the rotate distance only (0 when none)
firstMatch(c, e, r) ==
  IF c # 0 THEN Zone("resize", cornerNames[c])
  ELSE IF e # 0 THEN Zone("resize", edgeNames[e])
  ELSE IF r # 0 THEN Zone("rotate", cornerNames[r])
  ELSE Null

\* the three loops over the squared distances of the pointer to the corners
\* and to the edges
\* fault variant of zoneByDistances: enableResize and enableRotate are not read
zoneByDistancesAllEnabled(cornersSq, edgesSq, resizeDistance, rotateDistance, config) ==
  firstMatch(firstWithin(cornersSq, resizeDistance),
             firstWithin(edgesSq, resizeDistance),
             firstBetween(cornersSq, resizeDistance, rotateDistance))

zoneByDistances(cornersSq, edgesSq, resizeDistance, rotateDistance, config) ==
  firstMatch(IF config.enableResize THEN firstWithin(cornersSq, resizeDistance) ELSE 0,
             IF config.enableResize THEN firstWithin(edgesSq, resizeDistance) ELSE 0,
             IF config.enableRotate
             THEN firstBetween(cornersSq, resizeDistance, rotateDistance) ELSE 0)

zoneOnScreen(screenCorners, mouseScreen, resizeDistance, rotateDistance, config) ==
  IF \E i \in 1..4 : screenCorners[i] = Null THEN Null
  ELSE IF mouseScreen = Null THEN Null
  ELSE zoneByDistances(<<cornerDistanceSq(mouseScreen, screenCorners, 1),
                         cornerDistanceSq(mouseScreen, screenCorners, 2),
                         cornerDistanceSq(mouseScreen, screenCorners, 3),
                         cornerDistanceSq(mouseScreen, screenCorners, 4)>>,
                       <<edgeDistanceSq(mouseScreen, screenCorners, 1),
                         edgeDistanceSq(mouseScreen, screenCorners, 2),
                         edgeDistanceSq(mouseScreen, screenCorners, 3),
                         edgeDistanceSq(mouseScreen, screenCorners, 4)>>,
                       resizeDistance, rotateDistance, config)

\* corners.map(([x, y]) => worldToScreen([x, y], viewState, canvasElement))
projectCorners(corners, viewState, canvasElement) ==
  <<worldToScreen(corners[1], viewState, canvasElement),
    worldToScreen(corners[2], viewState, canvasElement),
    worldToScreen(corners[3], viewState, canvasElement),
    worldToScreen(corners[4], viewState, canvasElement)>>

\* fault variant of getHoverZone: the object is not asked whether it is selected
getHoverZoneOfAny(object, worldX, worldY, viewState, canvasElement, config) ==
  zoneOnScreen(projectCorners(getRotatedPolygon(object), viewState, canvasElement),
               worldToScreen(<<worldX, worldY>>, viewState, canvasElement),
               OrElse(config.resizeZoneDistance, <<12, 1>>),
               OrElse(config.rotateZoneDistance, <<24, 1>>),
               config)

getHoverZone(object, worldX, worldY, viewState, canvasElement, config) ==
  IF ~object.selected THEN Null
  ELSE zoneOnScreen(projectCorners(getRotatedPolygon(object), viewState, canvasElement),
                    worldToScreen(<<worldX, worldY>>, viewState, canvasElement),
                    OrElse(config.resizeZoneDistance, <<12, 1>>),
                    OrElse(config.rotateZoneDistance, <<24, 1>>),
                    config)

(***************************************************************************)
(* utils/cursor: getCursor.  A rotate cursor is the css of one of the four  *)
(* RotateCursorType images; it is written here as the name of its type.    *)
(***************************************************************************)
\* getCornerToRotateCursor(invertedY)[corner], or Undefined
cornerToRotateCursor(corner, invertedY) ==
  IF invertedY
  THEN CASE corner = "nw" -> "swne-rotate"
         [] corner = "ne" -> "senw-rotate"
         [] corner = "sw" -> "nwse-rotate"
         [] corner = "se" -> "nesw-rotate"
         [] OTHER -> Undefined
  ELSE CASE corner = "nw" -> "nwse-rotate"
         [] corner = "ne" -> "nesw-rotate"
         [] corner = "sw" -> "nesw-rotate"
         [] corner = "se" -> "nwse-rotate"
         [] OTHER -> Undefined

\* getRotateCursor, which getDirectionalRotateCursor calls with the colour of the theme
getRotateCursor(corner, invertedY) ==
  IF cornerToRotateCursor(corner, invertedY) = Undefined THEN "crosshair"
  ELSE cornerToRotateCursor(corner, invertedY)

\* handleMap[handle]?.[steps] || handle
handleAfterSteps(handle, steps) ==
  IF \E i \in 1..4 : edgeNames[i] = handle
  THEN edgeNames[(((CHOOSE i \in 1..4 : edgeNames[i] = handle) - 1 + steps) % 4) + 1]
  ELSE IF \E i \in 1..4 : cornerNames[i] = handle
  THEN cornerNames[(((CHOOSE i \in 1..4 : cornerNames[i] = handle) - 1 + steps) % 4) + 1]
  ELSE handle

\* a getRotatedHandle that leaves the handle as it is
getRotatedHandleUnturned(handle, rotation) == handle

\* getRotatedHandle: the handle after the rotation's nearest number of quarter turns
getRotatedHandle(handle, rotation) ==
  handleAfterSteps(handle,
    MathRound(QDiv(JsMod(QAdd(JsMod(rotation, <<360, 1>>), <<360, 1>>), <<360, 1>>),
                   <<90, 1>>)) % 4)

resizeCursorOf(rotatedHandle, invertedY) ==
  IF rotatedHandle \in {"nw", "se"}
  THEN (IF invertedY THEN "nesw-resize" ELSE "nwse-resize")
  ELSE IF rotatedHandle \in {"ne", "sw"}
  THEN (IF invertedY THEN "nwse-resize" ELSE "nesw-resize")
  ELSE IF rotatedHandle \in {"n", "s"} THEN "ns-resize"
  ELSE IF rotatedHandle \in {"e", "w"} THEN "ew-resize"
  ELSE "default"

getRotationAwareResizeCursor(handle, rotation, invertedY) ==
  resizeCursorOf(getRotatedHandle(handle, rotation), invertedY)

getRotationAwareRotateCursor(handle, rotation, invertedY) ==
  getRotateCursor(getRotatedHandle(handle, rotation), invertedY)

\* objects.find(o => o.id === layerId)?.rotation || 0
getObjectRotation(objs, layerId) ==
  IF \E i \in 1..Len(objs) : objs[i].id = layerId
  THEN objs[CHOOSE i \in 1..Len(objs) :
              objs[i].id = layerId /\ \A j \in 1..(i - 1) : objs[j].id # layerId].rotation
  ELSE <<0, 1>>

\* "if (dragging) { ... }"
draggingCursor(session, rotation, invertedY) ==
  IF session.type = "resize" /\ session.handle # Undefined
  THEN getRotationAwareResizeCursor(session.handle, rotation, invertedY)
  ELSE IF session.type = "rotate" /\ session.handle # Undefined
  THEN (IF session.handle \in {"nw", "ne", "se", "sw"}
        THEN getRotationAwareRotateCursor(session.handle, rotation, invertedY)
        ELSE "grabbing")
  ELSE IF session.type = "move" THEN "move"
  ELSE "grab"

\* the cursor of the hovered handle, or Undefined when the block falls through
hoveredCursor(hovered, rotation, invertedY) ==
  IF hovered.zoneType = "rotate" /\ hovered.handleType \in {"nw", "ne", "se", "sw"}
  THEN getRotationAwareRotateCursor(hovered.handleType, rotation, invertedY)
  ELSE IF hovered.zoneType = "resize"
  THEN getRotationAwareResizeCursor(hovered.handleType, rotation, invertedY)
  ELSE IF hovered.handleType = "rotate" THEN "crosshair"
  ELSE Undefined

\* "Check if hovering inside a selected layer"
insideCursor(inside, cfg) == IF inside /\ cfg.enableMove THEN "move" ELSE "grab"

\* fault variant of getCursor: the hovered handle is looked at before the session
getCursorHoverFirst(session, hovered, objs, inside, cfg) ==
  IF hovered # Null /\ (\E i \in 1..Len(objs) : objs[i].selected)
       /\ hoveredCursor(hovered, getObjectRotation(objs, hovered.layerId),
                        cfg.invertedYCoordinates) # Undefined
  THEN hoveredCursor(hovered, getObjectRotation(objs, hovered.layerId),
                     cfg.invertedYCoordinates)
  ELSE IF session # Null
  THEN draggingCursor(session, getObjectRotation(objs, session.layerId),
                      cfg.invertedYCoordinates)
  ELSE insideCursor(inside, cfg)

getCursor(session, hovered, objs, inside, cfg) ==
  IF session # Null
  THEN draggingCursor(session, getObjectRotation(objs, session.layerId),
                      cfg.invertedYCoordinates)
  ELSE IF hovered # Null /\ (\E i \in 1..Len(objs) : objs[i].selected)
            /\ hoveredCursor(hovered, getObjectRotation(objs, hovered.layerId),
                             cfg.invertedYCoordinates) # Undefined
  THEN hoveredCursor(hovered, getObjectRotation(objs, hovered.layerId),
                     cfg.invertedYCoordinates)
  ELSE insideCursor(inside, cfg)

(***************************************************************************)
(* utils/dataGeneration: the overlay generators.  The repository holds the  *)
(* module twice: the two differ in the scale that turns pixels into world   *)
(* units only.  A generator is written in the scale, and is named for each  *)
(* of the two; the colours of the overlay are left out.                     *)
(***************************************************************************)
\* Math.pow(2, viewState.zoom)
pixelsPerCommonUnit(zoom) == IF zoom >= 0 THEN <<2 ^ zoom, 1>> ELSE <<1, 2 ^ (-zoom)>>

\* Math.pow(2, viewState.zoom - 8) * 400
scaleOfZoom(zoom) == QMul(Pow2(zoom - 8), <<400, 1>>)

\* objects.forEach((obj) => { if (obj.selected) ... })
selectedOf(objs) == SelectSeq(objs, LAMBDA o : o.selected)

\* extendedObj
extendedObj(obj, bufferWorld) ==
  [obj EXCEPT !.x = QSub(obj.x, bufferWorld), !.y = QSub(obj.y, bufferWorld),
              !.width = QAdd(obj.width, QMul(<<2, 1>>, bufferWorld)),
              !.height = QAdd(obj.height, QMul(<<2, 1>>, bufferWorld))]

\* the corners of an extended object, turned about its centre
extendedPolygon(extended) ==
  rotatedCorners(extended, QAdd(extended.x, QHalf(extended.width)),
                 QAdd(extended.y, QHalf(extended.height)),
                 MathCos(QDiv(QMul(extended.rotation, MathPI), <<180, 1>>)),
                 MathSin(QDiv(QMul(extended.rotation, MathPI), <<180, 1>>)))

zonesOf(sel, bufferWorld, zoneType) ==
  [i \in 1..Len(sel) |->
     [polygon |-> extendedPolygon(extendedObj(sel[i], bufferWorld)),
      layerId |-> sel[i].id, zoneType |-> zoneType]]

resizeZoneDataAt(objs, scale, canvas, cfg) ==
  IF canvas = Null \/ ~cfg.enableResize THEN <<>>
  ELSE zonesOf(selectedOf(objs), QDiv(OrElse(cfg.resizeZoneDistance, <<12, 1>>), scale), "resize")

rotateZoneDataAt(objs, scale, canvas, cfg) ==
  IF canvas = Null \/ ~cfg.enableRotate THEN <<>>
  ELSE zonesOf(selectedOf(objs), QDiv(OrElse(cfg.rotateZoneDistance, <<24, 1>>), scale), "rotate")

\* outerBorder: the corners moved out by borderWidth, turned about the centre
\* of the object
outerBorder(obj, borderWidth) ==
  rotatedCorners(extendedObj(obj, borderWidth), QAdd(obj.x, QHalf(obj.width)),
                 QAdd(obj.y, QHalf(obj.height)),
                 MathCos(QDiv(QMul(obj.rotation, MathPI), <<180, 1>>)),
                 MathSin(QDiv(QMul(obj.rotation, MathPI), <<180, 1>>)))

bordersOf(sel, borderWidth) ==
  [i \in 1..Len(sel) |->
     [polygon |-> <<outerBorder(sel[i], borderWidth), getRotatedPolygon(sel[i])>>,
      layerId |-> sel[i].id, type |-> "border"]]

\* a generateBorderData that does not ask for the canvas element
borderDataAtUnbound(objs, scale, canvas, cfg) ==
  bordersOf(selectedOf(objs), QDiv(OrElse(cfg.borderWidth, <<2, 1>>), scale))

borderDataAt(objs, scale, canvas, cfg) ==
  IF canvas = Null THEN <<>>
  ELSE bordersOf(selectedOf(objs), QDiv(OrElse(cfg.borderWidth, <<2, 1>>), scale))

\* handlePositions: the corners and the midpoints of the edges, in this order
handleTypes == <<"nw", "n", "ne", "e", "se", "s", "sw", "w">>

midpoint(a, b) == <<QHalf(QAdd(a[1], b[1])), QHalf(QAdd(a[2], b[2]))>>

handlePositions(corners) ==
  <<corners[1], midpoint(corners[1], corners[2]), corners[2], midpoint(corners[2], corners[3]),
    corners[3], midpoint(corners[4], corners[3]), corners[4], midpoint(corners[4], corners[1])>>

handlesOf(sel, handleSizePx, worldSize) ==
  [k \in 1..(8 * Len(sel)) |->
     [position |-> handlePositions(getRotatedPolygon(sel[((k - 1) \div 8) + 1]))[((k - 1) % 8) + 1],
      handleType |-> handleTypes[((k - 1) % 8) + 1],
      layerId |-> sel[((k - 1) \div 8) + 1].id,
      size |-> handleSizePx, worldSize |-> worldSize]]

\* let worldSize = 0.002; if (viewState && canvasElement) worldSize = ...
handleWorldSize(handleSizePx, scale, canvas) ==
  IF canvas # Null THEN QDiv(QHalf(handleSizePx), scale) ELSE <<1, 500>>

handleDataAt(objs, scale, canvas, cfg) ==
  handlesOf(selectedOf(objs), OrElse(cfg.handleSize, <<4, 1>>),
            handleWorldSize(OrElse(cfg.handleSize, <<4, 1>>), scale, canvas))

\* the generators of the module that scales by Math.pow(2, viewState.zoom)
generateResizeZoneData(objs, view, canvas, cfg) ==
  resizeZoneDataAt(objs, pixelsPerCommonUnit(view.zoom), canvas, cfg)

generateRotateZoneData(objs, view, canvas, cfg) ==
  rotateZoneDataAt(objs, pixelsPerCommonUnit(view.zoom), canvas, cfg)

generateBorderData(objs, view, canvas, cfg) ==
  borderDataAt(objs, pixelsPerCommonUnit(view.zoom), canvas, cfg)

generateHandleData(objs, view, canvas, cfg) ==
  handleDataAt(objs, pixelsPerCommonUnit(view.zoom), canvas, cfg)

\* the generators of lib/utils/dataGeneration, which scales as worldToScreen
generateResizeZoneDataLib(objs, view, canvas, cfg) ==
  resizeZoneDataAt(objs, scaleOfZoom(view.zoom), canvas, cfg)

generateRotateZoneDataLib(objs, view, canvas, cfg) ==
  rotateZoneDataAt(objs, scaleOfZoom(view.zoom), canvas, cfg)

generateBorderDataLib(objs, view, canvas, cfg) ==
  borderDataAt(objs, scaleOfZoom(view.zoom), canvas, cfg)

generateHandleDataLib(objs, view, canvas, cfg) ==
  handleDataAt(objs, scaleOfZoom(view.zoom), canvas, cfg)

\* generateLayers of the hook, over either module
layersOf(borders, resizeZones, rotateZones, handles) ==
  [borders |-> borders, resizeZones |-> resizeZones, rotateZones |-> rotateZones,
   handles |-> handles]

generateLayers(objs, view, canvas, cfg) ==
  layersOf(generateBorderData(objs, view, canvas, cfg),
           generateResizeZoneData(objs, view, canvas, cfg),
           generateRotateZoneData(objs, view, canvas, cfg),
           generateHandleData(objs, view, canvas, cfg))

generateLayersLib(objs, view, canvas, cfg) ==
  layersOf(generateBorderDataLib(objs, view, canvas, cfg),
           generateResizeZoneDataLib(objs, view, canvas, cfg),
           generateRotateZoneDataLib(objs, view, canvas, cfg),
           generateHandleDataLib(objs, view, canvas, cfg))

(***************************************************************************)
(* hooks/useTransformationFrames (rotation-aware): state                   *)
(***************************************************************************)
VARIABLES
  objects,                \* prop: the host's TransformableObject list
  viewState,              \* prop: longitude, latitude, zoom
  canvasElement,          \* prop: Null, or the size of the canvas element
  config,                 \* DEFAULT_CONFIG merged with the host's config
  dragging,               \* useState: TransformationState, or Null
  keyPressed,             \* useState: {shift}
  hoveredHandle,          \* useState: HoveredHandle, or Null
  isHoveringInsideLayer,  \* useState
  pending,                \* change requests emitted to the host, not yet applied
  lastEvent,              \* the last handler run, with the picking info it got
  notes,                  \* the notifications the last handler emitted
  gesture,                \* history of the current session (for the properties)
  hovers,                 \* number of hover events handled so far
  sessions,               \* number of sessions begun so far
  outstanding             \* 'transform started' notifications not yet followed by a 'transform ended'

vars == <<objects, viewState, canvasElement, config, dragging, keyPressed,
          hoveredHandle, isHoveringInsideLayer, pending, lastEvent, notes,
          gesture, hovers, sessions, outstanding>>

props == <<viewState, canvasElement, config>>
hover == <<hoveredHandle, isHoveringInsideLayer, hovers>>

\* DEFAULT_CONFIG, the fields the handlers read
DEFAULT_CONFIG ==
  [resizeZoneDistance |-> <<6, 1>>,
   rotateZoneDistance |-> <<16, 1>>,
   enableResize |-> TRUE,
   enableRotate |-> TRUE,
   enableMove |-> TRUE,
   invertedYCoordinates |-> TRUE,
   handleSize |-> <<6, 1>>,
   borderWidth |-> <<2, 1>>,
   snapRotation |-> <<15, 1>>,
   minWidth |-> <<1, 100>>,
   minHeight |-> <<1, 100>>]

\* a Partial<TransformableObject> with no field
NoChanges == <<>>

\* {...obj, ...changes}
Merge(obj, changes) ==
  [f \in DOMAIN obj |-> IF f \in DOMAIN changes THEN changes[f] ELSE obj[f]]

\* objects.find((obj) => obj.id === id): the index of the first match, or 0
FindIndex(objs, id) ==
  IF \E i \in 1..Len(objs) : objs[i].id = id
  THEN CHOOSE i \in 1..Len(objs) :
         /\ objs[i].id = id
         /\ \A j \in 1..(i - 1) : objs[j].id # id
  ELSE 0

\* the getHoverZone calls of the loop "for (const obj of objects) if (obj.selected)",
\* which stops at the first call that returns a zone
ZoneOfIndex(i, worldX, worldY) ==
  getHoverZone(objects[i], worldX, worldY, viewState, canvasElement, config)

\* fault variant of ZoneHits: the loop gives up after the first object
ZoneHitsFirstOnly(worldX, worldY) ==
  {z \in {<<i, ZoneOfIndex(i, worldX, worldY)>> :
            i \in {j \in 1..Len(objects) : j = 1 /\ objects[j].selected}} :
     z[2] # Null}

\* the selected objects whose call returns a zone, each with its zone
ZoneHits(worldX, worldY) ==
  {z \in {<<i, ZoneOfIndex(i, worldX, worldY)>> :
            i \in {j \in 1..Len(objects) : objects[j].selected}} :
     z[2] # Null}

\* the hit at which the loop stops: that of the first object in the list
FirstHit(hits) == CHOOSE z \in hits : \A y \in hits : z[1] <= y[1]

StartNote(obj, type) == [kind |-> "start", id |-> obj.id, type |-> type]
UpdateNote(obj, changes) == [kind |-> "update", id |-> obj.id, changes |-> changes]
EndNote(obj) == [kind |-> "end", id |-> obj.id]
SelectionNote(ids) == [kind |-> "selection", ids |-> ids]

\* what the host has been asked to apply: the update and selection notifications
Requests(ns) == SelectSeq(ns, LAMBDA n : n.kind \in {"update", "selection"})

NoGesture == [start |-> Null, object |-> Null, updates |-> 0, last |-> Null,
              lagged |-> FALSE]

(***************************************************************************)
(* Helper functions for the resize                                         *)
(***************************************************************************)
\* fault variant of getScaleOriginPoint: the default case for every handle
getScaleOriginCenter(handle, bounds) ==
  Vec(QAdd(bounds.x, QHalf(bounds.width)), QAdd(bounds.y, QHalf(bounds.height)))

\* fault variant of getScaleOriginPoint: the origin is on the handle's own side
getScaleOriginOwnSide(handle, bounds) ==
  CASE handle = "nw" -> Vec(bounds.x, bounds.y)
    [] handle = "ne" -> Vec(QAdd(bounds.x, bounds.width), bounds.y)
    [] handle = "sw" -> Vec(bounds.x, QAdd(bounds.y, bounds.height))
    [] handle = "se" -> Vec(QAdd(bounds.x, bounds.width), QAdd(bounds.y, bounds.height))
    [] handle = "n" -> Vec(QAdd(bounds.x, QHalf(bounds.width)), bounds.y)
    [] handle = "s" -> Vec(QAdd(bounds.x, QHalf(bounds.width)), QAdd(bounds.y, bounds.height))
    [] handle = "w" -> Vec(bounds.x, QAdd(bounds.y, QHalf(bounds.height)))
    [] handle = "e" -> Vec(QAdd(bounds.x, bounds.width), QAdd(bounds.y, QHalf(bounds.height)))
    [] OTHER -> Vec(QAdd(bounds.x, QHalf(bounds.width)), QAdd(bounds.y, QHalf(bounds.height)))

getScaleOriginPoint(handle, bounds) ==
  LET x == bounds.x
      y == bounds.y
      width == bounds.width
      height == bounds.height
  IN  CASE handle = "nw" -> Vec(QAdd(x, width), QAdd(y, height))
        [] handle = "ne" -> Vec(x, QAdd(y, height))
        [] handle = "sw" -> Vec(QAdd(x, width), y)
        [] handle = "se" -> Vec(x, y)
        [] handle = "n" -> Vec(QAdd(x, QHalf(width)), QAdd(y, height))
        [] handle = "s" -> Vec(QAdd(x, QHalf(width)), y)
        [] handle = "w" -> Vec(QAdd(x, width), QAdd(y, QHalf(height)))
        [] handle = "e" -> Vec(x, QAdd(y, QHalf(height)))
        [] OTHER -> Vec(QAdd(x, QHalf(width)), QAdd(y, QHalf(height)))

\* fault variant of applyScaleToObject: the scaled offset is not turned back
\* into world space
\* new Vec(v.x * scaleX, v.y * scaleY)
scaledBy(v, scaleX, scaleY) == Vec(QMul(v.x, scaleX), QMul(v.y, scaleY))

\* the bounds of the given size about the given centre
boundsAbout(newCenter, newWidth, newHeight) ==
  [x |-> QSub(newCenter.x, QHalf(newWidth)),
   y |-> QSub(newCenter.y, QHalf(newHeight)),
   width |-> newWidth, height |-> newHeight]

applyScaleUnrotated(bounds, scaleX, scaleY, scaleOriginWorld, rotationRad) ==
  LET newWidth == QMul(bounds.width, MathAbs(scaleX))
      newHeight == QMul(bounds.height, MathAbs(scaleY))
      oldCenter == Vec(QAdd(bounds.x, QHalf(bounds.width)),
                       QAdd(bounds.y, QHalf(bounds.height)))
      centerOffset == VecRot(VecSub(oldCenter, scaleOriginWorld), QNeg(rotationRad))
      scaledOffset == scaledBy(centerOffset, scaleX, scaleY)
      newCenter == VecAdd(scaleOriginWorld, scaledOffset)
  IN  boundsAbout(newCenter, newWidth, newHeight)

applyScaleToObject(bounds, scaleX, scaleY, scaleOriginWorld, rotationRad) ==
  LET newWidth == QMul(bounds.width, MathAbs(scaleX))
      newHeight == QMul(bounds.height, MathAbs(scaleY))
      oldCenter == Vec(QAdd(bounds.x, QHalf(bounds.width)),
                       QAdd(bounds.y, QHalf(bounds.height)))
      centerOffset == VecRot(VecSub(oldCenter, scaleOriginWorld), QNeg(rotationRad))
      scaledOffset == scaledBy(centerOffset, scaleX, scaleY)
      newCenter == VecAdd(scaleOriginWorld, VecRot(scaledOffset, rotationRad))
  IN  boundsAbout(newCenter, newWidth, newHeight)

\* scale < 0 ? -1 : 1
SignOf(scale) == IF QLt(scale, <<0, 1>>) THEN <<-1, 1>> ELSE <<1, 1>>

(***************************************************************************)
(* handleDrag: the three branches that compute the changes                 *)
(***************************************************************************)
\* fault variant of moveChanges: the vertical delta is taken downwards
moveChangesFlipped(targetObject, deltaX, deltaY) ==
  [x |-> QAdd(targetObject.x, deltaX), y |-> QSub(targetObject.y, deltaY)]

moveChanges(targetObject, deltaX, deltaY) ==
  [x |-> QAdd(targetObject.x, deltaX), y |-> QAdd(targetObject.y, deltaY)]

\* fault variant of wrapAngleDiff: the adjustment is by pi
RECURSIVE wrapAngleDiffByPi(_)
wrapAngleDiffByPi(angleDiff) ==
  IF QLt(MathPI, angleDiff)
  THEN wrapAngleDiffByPi(QSub(angleDiff, MathPI))
  ELSE IF QLt(angleDiff, QNeg(MathPI))
  THEN wrapAngleDiffByPi(QAdd(angleDiff, MathPI))
  ELSE angleDiff

\* while (angleDiff > Math.PI) angleDiff -= 2 * Math.PI;
\* while (angleDiff < -Math.PI) angleDiff += 2 * Math.PI;
RECURSIVE wrapAngleDiff(_)
wrapAngleDiff(angleDiff) ==
  IF QLt(MathPI, angleDiff)
  THEN wrapAngleDiff(QSub(angleDiff, QMul(<<2, 1>>, MathPI)))
  ELSE IF QLt(angleDiff, QNeg(MathPI))
  THEN wrapAngleDiff(QAdd(angleDiff, QMul(<<2, 1>>, MathPI)))
  ELSE angleDiff

\* ((newRotation % 360) + 360) % 360
normalizeRotation(newRotation) ==
  JsMod(QAdd(JsMod(newRotation, <<360, 1>>), <<360, 1>>), <<360, 1>>)

\* fault variant of snapRotationTo: a snap to 360 is left as it is
snapRotationNoWrap(newRotation, snapRotation) ==
  QMul(QI(MathRound(QDiv(newRotation, snapRotation))), snapRotation)

\* fault variant of snapRotationTo: Math.floor in the place of Math.round
snapRotationDown(newRotation, snapRotation) ==
  LET snapped == QMul(QI(MathFloor(QDiv(newRotation, snapRotation))), snapRotation)
  IN  IF QLe(<<360, 1>>, snapped) THEN <<0, 1>> ELSE snapped

\* the snap applied while shift is pressed
snapRotationTo(newRotation, snapRotation) ==
  LET snapped == QMul(QI(MathRound(QDiv(newRotation, snapRotation))), snapRotation)
  IN  IF QLe(<<360, 1>>, snapped) THEN <<0, 1>> ELSE snapped

\* the snap applied to the new rotation while shift is pressed
rotationChanges(newRotation, shift, cfg) ==
  [rotation |-> IF shift THEN snapRotationTo(newRotation, cfg.snapRotation)
                ELSE newRotation]

rotateChanges(targetObject, session, currentX, currentY, shift, cfg) ==
  LET centerX == QAdd(targetObject.x, QHalf(targetObject.width))
      centerY == QAdd(targetObject.y, QHalf(targetObject.height))
      currentAngle == MathAtan2(QSub(currentY, centerY), QSub(currentX, centerX))
      startAngle == MathAtan2(QSub(session.startY, centerY),
                              QSub(session.startX, centerX))
      angleDiff == wrapAngleDiff(QSub(currentAngle, startAngle))
      rotationChange == QMul(angleDiff, QDiv(<<180, 1>>, MathPI))
      startRotation == IF session.startRotation = Null THEN <<0, 1>>
                       ELSE session.startRotation
      newRotation == normalizeRotation(QAdd(startRotation, rotationChange))
  IN  rotationChanges(newRotation, shift, cfg)

(***************************************************************************)
(* hooks/useTransformationFrames (axis-aligned): the resize of handleDrag.  *)
(* Its handleDragStart, handleDragEnd and the move and rotate of its        *)
(* handleDrag are those of the rotation-aware hook, line for line.           *)
(***************************************************************************)
MathMax(a, b) == IF QLt(a, b) THEN b ELSE a
MathMin(a, b) == IF QLt(b, a) THEN b ELSE a

\* handle.includes(letter), for the eight handle names
handleIncludes(handle, letter) ==
  handle \in (CASE letter = "n" -> {"n", "nw", "ne"}
                [] letter = "s" -> {"s", "sw", "se"}
                [] letter = "w" -> {"w", "nw", "sw"}
                [] letter = "e" -> {"e", "ne", "se"})

\* newLayer.y and newLayer.height: the rules of "n" and of "s"
axisVertical(handle, orig, target, currentY) ==
  IF handleIncludes(handle, "n")
  THEN [y |-> currentY, height |-> MathAbs(QSub(QAdd(orig.y, orig.height), currentY))]
  ELSE IF handleIncludes(handle, "s")
  THEN [y |-> orig.y, height |-> MathAbs(QSub(currentY, orig.y))]
  ELSE [y |-> target.y, height |-> target.height]

\* newLayer.x and newLayer.width: the rules of "w" and of "e"
axisHorizontal(handle, orig, target, currentX) ==
  IF handleIncludes(handle, "w")
  THEN [x |-> MathMin(currentX, QAdd(orig.x, orig.width)),
        width |-> MathAbs(QSub(QAdd(orig.x, orig.width), currentX))]
  ELSE IF handleIncludes(handle, "e")
  THEN [x |-> orig.x, width |-> MathAbs(QSub(currentX, orig.x))]
  ELSE [x |-> target.x, width |-> target.width]

\* "Maintain aspect ratio when shift is pressed", then "Apply constraints"
axisConstrained(handle, h, v, aspectRatio, locked, cfg) ==
  [x |-> h.x,
   y |-> v.y,
   width |-> MathMax(cfg.minWidth,
                     MathAbs(IF locked /\ ~(handleIncludes(handle, "w") \/ handleIncludes(handle, "e"))
                             THEN QMul(v.height, aspectRatio) ELSE h.width)),
   height |-> MathMax(cfg.minHeight,
                      IF locked /\ (handleIncludes(handle, "w") \/ handleIncludes(handle, "e"))
                      THEN QDiv(h.width, aspectRatio) ELSE v.height)]

\* the changes of the resize branch
axisResizeChanges(targetObject, session, currentX, currentY, shift, cfg) ==
  axisConstrained(session.handle,
                  axisHorizontal(session.handle, session.originalBounds, targetObject, currentX),
                  axisVertical(session.handle, session.originalBounds, targetObject, currentY),
                  session.originalAspectRatio,
                  shift /\ session.originalAspectRatio # Null /\ ~QIsZero(session.originalAspectRatio),
                  cfg)

\* "Apply constraints": a scale smaller in size than the minimum takes the
\* minimum, with its sign
\* fault variant of atLeast: the scale is left as it is
atLeastUnclamped(scale, minScale) == scale

\* "Apply constraints": a scale smaller in magnitude than the minimum becomes
\* the minimum with the sign of the scale
atLeast(scale, minScale) ==
  IF QLt(MathAbs(scale), minScale) THEN QMul(minScale, SignOf(scale)) ELSE scale

resizeConstrained(orig, scaleX, scaleY, scaleOriginWorld, rotationRad, cfg) ==
  applyScaleToObject(orig,
                     atLeast(scaleX, QDiv(cfg.minWidth, orig.width)),
                     atLeast(scaleY, QDiv(cfg.minHeight, orig.height)),
                     scaleOriginWorld, rotationRad)

\* fault variant of resizeWithAspect: shift is not looked at
resizeWithoutAspect(handle, orig, scaleX, scaleY, scaleOriginWorld, rotationRad, shift, cfg) ==
  resizeConstrained(orig, scaleX, scaleY, scaleOriginWorld, rotationRad, cfg)

\* "Aspect ratio constraint", while shift is pressed
resizeWithAspect(handle, orig, scaleX, scaleY, scaleOriginWorld, rotationRad, shift, cfg) ==
  LET isXLocked == handle \in {"n", "s"}
      isYLocked == handle \in {"w", "e"}
  IN  resizeConstrained(
        orig,
        IF ~shift THEN scaleX
        ELSE IF isYLocked THEN scaleX
        ELSE IF isXLocked THEN MathAbs(scaleY)
        ELSE IF QLt(MathAbs(scaleY), MathAbs(scaleX)) THEN scaleX
        ELSE QMul(MathAbs(scaleY), SignOf(scaleX)),
        IF ~shift THEN scaleY
        ELSE IF isYLocked THEN MathAbs(scaleX)
        ELSE IF isXLocked THEN scaleY
        ELSE IF QLt(MathAbs(scaleY), MathAbs(scaleX))
        THEN QMul(MathAbs(scaleX), SignOf(scaleY))
        ELSE scaleY,
        scaleOriginWorld, rotationRad, cfg)

\* "Calculate scale factors" and "Lock axes for edge handles".  A quotient
\* of finite numbers with a non-zero divisor is finite, so the
\* Number.isFinite tests never replace it.
resizeByDistances(handle, orig, currentDistance, startDistance, scaleOriginWorld, rotationRad, shift, cfg) ==
  LET isXLocked == handle \in {"n", "s"}
      isYLocked == handle \in {"w", "e"}
  IN  resizeWithAspect(
        handle, orig,
        IF isXLocked THEN <<1, 1>>
        ELSE IF ~QIsZero(startDistance.x)
        THEN QDiv(currentDistance.x, startDistance.x) ELSE <<1, 1>>,
        IF isYLocked THEN <<1, 1>>
        ELSE IF ~QIsZero(startDistance.y)
        THEN QDiv(currentDistance.y, startDistance.y) ELSE <<1, 1>>,
        scaleOriginWorld, rotationRad, shift, cfg)

\* "Calculate distances from scale origin, rotated to object's local space"
resizeFromOrigin(handle, orig, currentPoint, startPoint, scaleOriginWorld, rotationRad, shift, cfg) ==
  resizeByDistances(handle, orig,
                    VecRot(VecSub(currentPoint, scaleOriginWorld), QNeg(rotationRad)),
                    VecRot(VecSub(startPoint, scaleOriginWorld), QNeg(rotationRad)),
                    scaleOriginWorld, rotationRad, shift, cfg)

resizeAtAngle(handle, orig, currentPoint, startPoint, rotationRad, shift, cfg) ==
  LET scaleOriginLocal == getScaleOriginPoint(handle, orig)
      objectCenter == Vec(QAdd(orig.x, QHalf(orig.width)),
                          QAdd(orig.y, QHalf(orig.height)))
  IN  resizeFromOrigin(handle, orig, currentPoint, startPoint,
                       VecRotWith(scaleOriginLocal, objectCenter, rotationRad),
                       rotationRad, shift, cfg)

resizeChanges(targetObject, session, currentX, currentY, shift, cfg) ==
  resizeAtAngle(session.handle, session.originalBounds,
                Vec(currentX, currentY), Vec(session.startX, session.startY),
                QMul(targetObject.rotation, QDiv(MathPI, <<180, 1>>)),
                shift, cfg)

(***************************************************************************)
(* The event handlers.  info is the DeckGLPickingInfo: coordinate is Null   *)
(* or <<worldX, worldY>>, object is Null or [layerId |-> id].               *)
(***************************************************************************)
handleClick(info) ==
  /\ lastEvent' = [handler |-> "click", info |-> info]
  /\ notes' =
       IF info.object = Null THEN <<SelectionNote({})>>
       ELSE LET k == FindIndex(objects, info.object.layerId)
            IN  IF k = 0 THEN <<>> ELSE <<SelectionNote({objects[k].id})>>
  /\ pending' = pending \o Requests(notes')
  /\ UNCHANGED <<objects, props, dragging, keyPressed, hover, gesture, sessions, outstanding>>

\* the session begun on a selected object in whose zone the pointer is
\* fault variant of startTransform: the snapshot is taken of the first object
\* of the list
startTransformOfFirst(info, obj, zone) ==
  /\ dragging' = [layerId |-> obj.id,
                  startX |-> info.coordinate[1],
                  startY |-> info.coordinate[2],
                  type |-> zone.type,
                  handle |-> zone.handle,
                  originalAspectRatio |-> QDiv(objects[1].width, objects[1].height),
                  originalBounds |-> [x |-> objects[1].x, y |-> objects[1].y,
                                      width |-> objects[1].width,
                                      height |-> objects[1].height],
                  startRotation |-> IF zone.type = "rotate" THEN objects[1].rotation
                                    ELSE Null]
  /\ notes' = <<StartNote(obj, zone.type)>>
  /\ gesture' = [NoGesture EXCEPT !.start = info.coordinate, !.object = obj]
  /\ sessions' = sessions + 1
  /\ outstanding' = outstanding + 1

startTransform(info, obj, zone) ==
  /\ dragging' = [layerId |-> obj.id,
                  startX |-> info.coordinate[1],
                  startY |-> info.coordinate[2],
                  type |-> zone.type,
                  handle |-> zone.handle,
                  originalAspectRatio |-> QDiv(obj.width, obj.height),
                  originalBounds |-> [x |-> obj.x, y |-> obj.y,
                                      width |-> obj.width, height |-> obj.height],
                  startRotation |-> IF zone.type = "rotate" THEN obj.rotation
                                    ELSE Null]
  /\ notes' = <<StartNote(obj, zone.type)>>
  /\ gesture' = [NoGesture EXCEPT !.start = info.coordinate, !.object = obj]
  /\ sessions' = sessions + 1
  /\ outstanding' = outstanding + 1

\* the move begun on the picked object
startMove(info, clickedObject) ==
  /\ dragging' = [layerId |-> clickedObject.id,
                  startX |-> info.coordinate[1],
                  startY |-> info.coordinate[2],
                  type |-> "move",
                  handle |-> Undefined,
                  originalAspectRatio |-> Null,
                  originalBounds |-> Null,
                  startRotation |-> Null]
  /\ notes' = <<StartNote(clickedObject, "move")>>
  /\ gesture' = [NoGesture EXCEPT !.start = info.coordinate, !.object = clickedObject]
  /\ sessions' = sessions + 1
  /\ outstanding' = outstanding + 1

\* "If no hover zone detected, check for regular object clicks": k is the
\* index of the picked object in the list, or 0
startOnPicked(info, k) ==
  IF k # 0 /\ isPointInsideLayer(objects[IF k = 0 THEN 1 ELSE k],
                                 info.coordinate[1], info.coordinate[2])
  THEN startMove(info, objects[k])
  ELSE /\ notes' = <<>>
       /\ UNCHANGED <<dragging, gesture, sessions, outstanding>>

handleDragStart(info) ==
  /\ lastEvent' = [handler |-> "dragStart", info |-> info]
  /\ UNCHANGED <<objects, props, keyPressed, hover, pending>>
  /\ IF info.coordinate = Null
     THEN /\ notes' = <<>>
          /\ UNCHANGED <<dragging, gesture, sessions, outstanding>>
     ELSE
       \E hits \in {ZoneHits(info.coordinate[1], info.coordinate[2])} :
         IF hits # {}
         THEN startTransform(info, objects[FirstHit(hits)[1]], FirstHit(hits)[2])
         ELSE startOnPicked(info, IF info.object # Null /\ config.enableMove
                                  THEN FindIndex(objects, info.object.layerId)
                                  ELSE 0)

\* handleDrag returns before onTransformUpdate: a resize session without
\* originalBounds
dragReturns ==
  /\ dragging.type = "resize"
  /\ dragging.handle # Undefined
  /\ config.enableResize
  /\ dragging.originalBounds = Null

\* the changes handleDrag computes for the target
dragChanges(targetObject, currentX, currentY) ==
  LET deltaX == QSub(currentX, dragging.startX)
      deltaY == QSub(currentY, dragging.startY)
  IN  IF dragging.type = "move"
      THEN moveChanges(targetObject, deltaX, deltaY)
      ELSE IF dragging.type = "rotate"
      THEN rotateChanges(targetObject, dragging, currentX, currentY,
                         keyPressed.shift, config)
      ELSE IF dragging.type = "resize" /\ dragging.handle # Undefined /\ config.enableResize
      THEN resizeChanges(targetObject, dragging, currentX, currentY,
                         keyPressed.shift, config)
      ELSE NoChanges

\* fault variant of rebaseline: the start point follows the pointer in every
\* kind of session
rebaselineAlways(prev, currentX, currentY) ==
  [prev EXCEPT !.startX = currentX, !.startY = currentY]

\* fault variant of rebaseline: only a resize keeps its start point
rebaselineUnlessResize(prev, currentX, currentY) ==
  IF prev.type = "resize"
  THEN prev
  ELSE [prev EXCEPT !.startX = currentX, !.startY = currentY]

\* the session after an update: startX and startY follow the pointer in a
\* move, and stay in a rotate or resize
rebaseline(prev, currentX, currentY) ==
  IF prev.type = "rotate" \/ prev.type = "resize"
  THEN prev
  ELSE [prev EXCEPT !.startX = currentX, !.startY = currentY]

\* the update is emitted, and the session re-baselined
emitUpdate(info, targetObject, changes) ==
  /\ notes' = <<UpdateNote(targetObject, changes)>>
  /\ pending' = pending \o Requests(notes')
  /\ dragging' = rebaseline(dragging, info.coordinate[1], info.coordinate[2])
  /\ gesture' =
       [gesture EXCEPT
          !.updates = @ + 1,
          !.last = info.coordinate,
          !.lagged = @ \/ (\E n \in 1..Len(pending) : pending[n].kind = "update")]

\* fault variant of dragTarget: when the session's object is not in the list
\* the first object of the list is taken for it
dragTargetOrFirst(info, k) ==
  IF dragging = Null \/ info.coordinate = Null \/ Len(objects) = 0
  THEN /\ notes' = <<>>
       /\ UNCHANGED <<dragging, pending, gesture>>
  ELSE IF dragReturns
  THEN /\ notes' = <<>>
       /\ UNCHANGED <<dragging, pending, gesture>>
  ELSE emitUpdate(info, objects[IF k = 0 THEN 1 ELSE k],
                  dragChanges(objects[IF k = 0 THEN 1 ELSE k],
                              info.coordinate[1], info.coordinate[2]))

\* k is the index of the session's object in the list, or 0
dragTarget(info, k) ==
  IF dragging = Null \/ info.coordinate = Null \/ k = 0
  THEN /\ notes' = <<>>
       /\ UNCHANGED <<dragging, pending, gesture>>
  ELSE IF dragReturns
  THEN /\ notes' = <<>>
       /\ UNCHANGED <<dragging, pending, gesture>>
  ELSE emitUpdate(info, objects[k],
                  dragChanges(objects[k], info.coordinate[1], info.coordinate[2]))

handleDrag(info) ==
  /\ lastEvent' = [handler |-> "drag", info |-> info]
  /\ UNCHANGED <<objects, props, keyPressed, hover, sessions, outstanding>>
  /\ dragTarget(info, IF dragging = Null THEN 0
                     ELSE FindIndex(objects, dragging.layerId))

\* handleDrag of the axis-aligned hook
dragChangesAxisAligned(targetObject, currentX, currentY) ==
  IF dragging.type = "move"
  THEN moveChanges(targetObject, QSub(currentX, dragging.startX), QSub(currentY, dragging.startY))
  ELSE IF dragging.type = "rotate"
  THEN rotateChanges(targetObject, dragging, currentX, currentY, keyPressed.shift, config)
  ELSE IF dragging.type = "resize" /\ dragging.handle # Undefined /\ config.enableResize
  THEN axisResizeChanges(targetObject, dragging, currentX, currentY, keyPressed.shift, config)
  ELSE NoChanges

dragTargetAxisAligned(info, k) ==
  IF dragging = Null \/ info.coordinate = Null \/ k = 0
  THEN /\ notes' = <<>>
       /\ UNCHANGED <<dragging, pending, gesture>>
  ELSE IF dragReturns
  THEN /\ notes' = <<>>
       /\ UNCHANGED <<dragging, pending, gesture>>
  ELSE emitUpdate(info, objects[k],
                  dragChangesAxisAligned(objects[k], info.coordinate[1], info.coordinate[2]))

handleDragAxisAligned(info) ==
  /\ lastEvent' = [handler |-> "drag", info |-> info]
  /\ UNCHANGED <<objects, props, keyPressed, hover, sessions, outstanding>>
  /\ dragTargetAxisAligned(info, IF dragging = Null THEN 0
                                 ELSE FindIndex(objects, dragging.layerId))

\* fault variant of handleDragEnd: the session is not cleared
handleDragEndKeepsSession ==
  /\ lastEvent' = [handler |-> "dragEnd", info |-> Null]
  /\ notes' =
       IF dragging = Null THEN <<>>
       ELSE LET k == FindIndex(objects, dragging.layerId)
            IN  IF k = 0 THEN <<>> ELSE <<EndNote(objects[k])>>
  /\ dragging' = dragging
  /\ gesture' = NoGesture
  /\ outstanding' = outstanding - Len(notes')
  /\ UNCHANGED <<objects, props, keyPressed, hover, pending, sessions>>

\* fault variant of handleDragEnd: it returns early when the object is gone
handleDragEndReturnsEarly ==
  /\ lastEvent' = [handler |-> "dragEnd", info |-> Null]
  /\ notes' =
       IF dragging = Null THEN <<>>
       ELSE LET k == FindIndex(objects, dragging.layerId)
            IN  IF k = 0 THEN <<>> ELSE <<EndNote(objects[k])>>
  /\ dragging' =
       IF dragging # Null /\ FindIndex(objects, dragging.layerId) = 0
       THEN dragging ELSE Null
  /\ gesture' = NoGesture
  /\ outstanding' = outstanding - Len(notes')
  /\ UNCHANGED <<objects, props, keyPressed, hover, pending, sessions>>

handleDragEnd ==
  /\ lastEvent' = [handler |-> "dragEnd", info |-> Null]
  /\ notes' =
       IF dragging = Null THEN <<>>
       ELSE LET k == FindIndex(objects, dragging.layerId)
            IN  IF k = 0 THEN <<>> ELSE <<EndNote(objects[k])>>
  /\ dragging' = Null
  /\ gesture' = NoGesture
  /\ outstanding' = outstanding - Len(notes')
  /\ UNCHANGED <<objects, props, keyPressed, hover, pending, sessions>>

\* the state after the loop stopped at the hit first (0 when no object had a
\* zone): the objects the loop visited before it, whose zone is null, are
\* tested for the pointer being inside them
hoverResult(info, hits, first) ==
  /\ hoveredHandle' =
       IF first = 0 THEN Null
       ELSE [layerId |-> objects[first].id,
             handleType |-> FirstHit(hits)[2].handle,
             zoneType |-> FirstHit(hits)[2].zoneType]
  /\ isHoveringInsideLayer' =
       \E i \in 1..(IF first = 0 THEN Len(objects) ELSE first) :
         /\ objects[i].selected
         /\ i # first
         /\ isPointInsideLayer(objects[i], info.coordinate[1], info.coordinate[2])

hoverOver(info, hits) ==
  hoverResult(info, hits, IF hits = {} THEN 0 ELSE FirstHit(hits)[1])

handleHover(info) ==
  /\ lastEvent' = [handler |-> "hover", info |-> info]
  /\ notes' = <<>>
  /\ hovers' = hovers + 1
  /\ UNCHANGED <<objects, props, dragging, keyPressed, pending, gesture, sessions, outstanding>>
  /\ IF info.coordinate = Null
     THEN /\ hoveredHandle' = Null
          /\ isHoveringInsideLayer' = FALSE
     ELSE hoverOver(info, ZoneHits(info.coordinate[1], info.coordinate[2]))

\* the keydown and keyup listeners
handleKeyDown ==
  /\ keyPressed' = [keyPressed EXCEPT !.shift = TRUE]
  /\ lastEvent' = [handler |-> "keyDown", info |-> Null]
  /\ notes' = <<>>
  /\ UNCHANGED <<objects, props, dragging, hover, pending, gesture, sessions, outstanding>>

handleKeyUp ==
  /\ keyPressed' = [keyPressed EXCEPT !.shift = FALSE]
  /\ lastEvent' = [handler |-> "keyUp", info |-> Null]
  /\ notes' = <<>>
  /\ UNCHANGED <<objects, props, dragging, hover, pending, gesture, sessions, outstanding>>

\* no handler is running and the notifications of the last one are delivered
NoEvent == [handler |-> "none", info |-> Null]

\* the handler returns to the event loop
Return ==
  /\ lastEvent # NoEvent
  /\ lastEvent' = NoEvent
  /\ notes' = <<>>
  /\ UNCHANGED <<objects, props, dragging, keyPressed, hover, pending, gesture, sessions, outstanding>>

(***************************************************************************)
(* The host (components/HookBasedDemo): it owns the object list and applies *)
(* the change requests it was sent.                                        *)
(***************************************************************************)
\* handleTransformUpdate and handleSelectionChange, applied to the list
applyRequest(objs, req) ==
  IF req.kind = "update"
  THEN [i \in 1..Len(objs) |->
          IF objs[i].id = req.id THEN Merge(objs[i], req.changes) ELSE objs[i]]
  ELSE [i \in 1..Len(objs) |->
          [objs[i] EXCEPT !.selected = (objs[i].id \in req.ids)]]

HostApply ==
  /\ pending # <<>>
  /\ objects' = applyRequest(objects, Head(pending))
  /\ pending' = Tail(pending)
  /\ UNCHANGED <<props, dragging, keyPressed, hover, lastEvent, notes, gesture, sessions, outstanding>>

\* the host takes an object out of its list
HostRemove(i) ==
  /\ i \in 1..Len(objects)
  /\ objects' = SubSeq(objects, 1, i - 1) \o SubSeq(objects, i + 1, Len(objects))
  /\ UNCHANGED <<props, dragging, keyPressed, hover, pending, lastEvent, notes,
                 gesture, sessions, outstanding>>

(***************************************************************************)
(* Bounds, and the inputs drawn within them                                *)
(***************************************************************************)
MaxSessions == 1
MaxUpdates == 2
MaxPending == 2
MaxRemovals == 1
MaxHovers == 1

\* the point of the object's own frame that lies hx half-widths and hy
\* half-heights from its centre, moved outwards by off on each axis it is off
\* centre, and turned with the object: hx, hy in {-1, 0, 1} give the corners,
\* the edge midpoints and the centre
\* toArray() of class Vec
toArray(v) == <<v.x, v.y>>

FramePointAbout(obj, centre, hx, hy, off) ==
  toArray(VecRotWith(Vec(QAdd(centre.x, QMul(QI(hx), QAdd(QHalf(obj.width), off))),
                         QAdd(centre.y, QMul(QI(hy), QAdd(QHalf(obj.height), off)))),
                     centre, QDiv(obj.rotation, <<180, 1>>)))

FramePoint(obj, hx, hy, off) ==
  FramePointAbout(obj, Vec(QAdd(obj.x, QHalf(obj.width)), QAdd(obj.y, QHalf(obj.height))),
                  hx, hy, off)

\* outward offset (world units) of a pointer aimed at a corner's rotate zone
RotateOffset == <<2, 5>>

FarPoint == << <<-10, 1>>, <<-10, 1>> >>

\* pointers aimed at an object: two opposite corners, two edge midpoints, the
\* centre, and a point off a third corner
AimedAt(obj) ==
  {FramePoint(obj, h[1], h[2], <<0, 1>>) :
     h \in {<<-1, -1>>, <<1, 1>>, <<0, -1>>, <<1, 0>>, <<0, 0>>}}
    \cup {FramePoint(obj, 1, -1, RotateOffset)}

Pointers ==
  UNION {AimedAt(objects[i]) : i \in 1..Len(objects)} \cup {FarPoint}

\* info.object: nothing picked, or one of the objects of the list
Picks == {Null} \cup {[layerId |-> objects[i].id] : i \in 1..Len(objects)}

Infos == {[coordinate |-> c, object |-> o] : c \in Pointers \cup {Null}, o \in Picks}

\* a click reads info.object only
ClickInfos == {[coordinate |-> Null, object |-> o] : o \in Picks}

\* displacements of the pointer from the drag-start point during a move or resize
DragOffsets ==
  {<< <<0, 1>>, <<0, 1>> >>, << <<2, 5>>, <<1, 5>> >>,
   << <<-2, 1>>, <<-2, 1>> >>}

\* the pointer turned j quarter turns about the centre of the session's object
QuarterTurn(p, obj, j) ==
  toArray(VecRotWith(Vec(p[1], p[2]),
                     Vec(QAdd(obj.x, QHalf(obj.width)), QAdd(obj.y, QHalf(obj.height))),
                     Q(j, 2)))

\* pointers of a drag-update: displaced from the drag-start point; in a rotate
\* session, the quarter turns of the start point about the object's centre, so
\* that every rotation the session emits has a rational sine and cosine
DragPointers ==
  IF gesture.start = Null \/ dragging = Null THEN {FarPoint}
  ELSE IF dragging.type = "rotate"
  THEN LET k == FindIndex(objects, dragging.layerId)
       IN  IF k = 0 THEN {gesture.start}
           ELSE {QuarterTurn(gesture.start, objects[k], j) : j \in 0..3}
  ELSE {<<QAdd(gesture.start[1], d[1]), QAdd(gesture.start[2], d[2])>> : d \in DragOffsets}

DragInfos == {[coordinate |-> c, object |-> Null] : c \in DragPointers \cup {Null}}

(***************************************************************************)
(* Initial states                                                          *)
(***************************************************************************)
Layer(id, x, y, width, height, rotation, selected) ==
  [id |-> id, x |-> x, y |-> y, width |-> width, height |-> height,
   rotation |-> rotation, selected |-> selected]

\* two overlapping objects, the first selected
SceneObjects(rotation, selected) ==
  << Layer("1", <<0, 1>>, <<0, 1>>, <<8, 5>>, <<6, 5>>, rotation, TRUE),
     Layer("2", <<1, 1>>, <<4, 5>>, <<8, 5>>, <<6, 5>>, <<0, 1>>, selected) >>

SceneView == [longitude |-> <<0, 1>>, latitude |-> <<0, 1>>, zoom |-> 4]
SceneCanvas == [width |-> <<800, 1>>, height |-> <<600, 1>>]

InitHook ==
  /\ dragging = Null
  /\ keyPressed = [shift |-> FALSE]
  /\ hoveredHandle = Null
  /\ isHoveringInsideLayer = FALSE
  /\ hovers = 0
  /\ pending = <<>>
  /\ lastEvent = NoEvent
  /\ notes = <<>>
  /\ gesture = NoGesture
  /\ sessions = 0
  /\ outstanding = 0

Init ==
  /\ InitHook
  /\ \E rotation \in {<<0, 1>>, <<90, 1>>}, selected \in BOOLEAN :
       objects = SceneObjects(rotation, selected)
  /\ viewState = SceneView
  /\ canvasElement = SceneCanvas
  /\ config = DEFAULT_CONFIG

\* the events are handled one at a time
Ready == lastEvent = NoEvent

Next ==
  \/ /\ Ready
     /\ sessions < MaxSessions
     /\ \E info \in Infos : handleDragStart(info)
  \/ /\ Ready
     /\ gesture.updates < MaxUpdates
     /\ Len(pending) < MaxPending
     /\ \E info \in DragInfos : handleDrag(info)
  \/ Ready /\ handleDragEnd
  \/ Ready /\ handleKeyDown
  \/ Ready /\ handleKeyUp
  \/ Return
  \/ Ready /\ HostApply
  \/ /\ Ready
     /\ Len(objects) + MaxRemovals > 2
     /\ \E i \in 1..Len(objects) : HostRemove(i)

Spec == Init /\ [][Next]_vars

(***************************************************************************)
(* SpecResize: resize sessions on one selected object, at right and oblique *)
(* rotations                                                               *)
(***************************************************************************)
\* 0, 90, and the 3-4-5 angles in each quadrant
Rotations ==
  {<<0, 1>>, <<90, 1>>, Q(3687, 100), Q(12687, 100), Q(23313, 100), Q(32313, 100)}

ResizeScene(rotation) ==
  << Layer("1", <<1, 5>>, <<-2, 5>>, <<8, 5>>, <<6, 5>>, rotation, TRUE) >>

\* pointers on the eight handles, and a tenth of a unit outside them
HandlePoints(obj) ==
  {FramePoint(obj, h[1], h[2], off) :
     h \in ({-1, 0, 1} \X {-1, 0, 1}) \ {<<0, 0>>}, off \in {<<0, 1>>, <<1, 10>>}}

HandleInfos ==
  {[coordinate |-> c, object |-> Null] :
     c \in UNION {HandlePoints(objects[i]) : i \in 1..Len(objects)}}

\* displacements of the pointer from the drag-start point during a resize:
\* none, outwards, across the object and beyond, and onto the far side
ResizeOffsets ==
  DragOffsets \cup {<< <<-8, 5>>, <<-6, 5>> >>}

\* the object {x: 0, y: 0, width: 10, height: 10}, not turned, and the
\* displacement that takes the pointer from its corner (10, 10) to (20, 15)
TenByTen == << Layer("1", <<0, 1>>, <<0, 1>>, <<10, 1>>, <<10, 1>>, <<0, 1>>, TRUE) >>

TenByTenOffsets == {<< <<10, 1>>, <<5, 1>> >>, << <<-2, 1>>, <<3, 1>> >>}

ResizeInfos ==
  IF gesture.start = Null THEN {[coordinate |-> FarPoint, object |-> Null]}
  ELSE {[coordinate |-> <<QAdd(gesture.start[1], d[1]), QAdd(gesture.start[2], d[2])>>,
         object |-> Null] :
          d \in ResizeOffsets \cup (IF gesture.object.width = <<10, 1>> THEN TenByTenOffsets ELSE {})}

InitResize ==
  /\ InitHook
  /\ objects \in {ResizeScene(rotation) : rotation \in Rotations} \cup {TenByTen}
  /\ viewState = SceneView
  /\ canvasElement = SceneCanvas
  /\ config = DEFAULT_CONFIG

NextResize ==
  \/ /\ Ready
     /\ sessions < MaxSessions
     /\ \E info \in HandleInfos : handleDragStart(info)
  \/ /\ Ready
     /\ gesture.updates < MaxUpdates
     /\ Len(pending) < MaxPending
     /\ \E info \in ResizeInfos : handleDrag(info)
  \/ Ready /\ handleDragEnd
  \/ Ready /\ handleKeyDown
  \/ Ready /\ handleKeyUp
  \/ Return
  \/ Ready /\ HostApply

SpecResize == InitResize /\ [][NextResize]_vars

(***************************************************************************)
(* SpecRotate: rotate sessions with the pointer anywhere about the object,  *)
(* for several snap steps.  The host keeps the updates waiting.            *)
(***************************************************************************)
\* values of config.snapRotation: the default, two that do not divide 360,
\* and one beyond 360
SnapSteps == {<<15, 1>>, <<7, 1>>, <<100, 1>>, <<400, 1>>}

CenterOf(obj) == <<QAdd(obj.x, QHalf(obj.width)), QAdd(obj.y, QHalf(obj.height))>>

\* directions from the centre at about 170 and -170 degrees, whose points lie
\* in the rotate zones of the two left corners of the unturned object
Dir170 == << <<-17, 16>>, <<3, 16>> >>
DirMinus170 == << <<-17, 16>>, <<-3, 16>> >>

\* displacements of the pointer from the centre of the object
Directions ==
  {Dir170, DirMinus170,
   << <<1, 1>>, <<0, 1>> >>, << <<0, 1>>, <<1, 1>> >>,
   << <<-1, 1>>, <<0, 1>> >>, << <<0, 1>>, <<-1, 1>> >>,
   << <<1, 1>>, <<1, 1>> >>, << <<4, 5>>, <<3, 5>> >>,
   << <<2, 5>>, <<-7, 5>> >>, << <<0, 1>>, <<0, 1>> >>}

About(obj, d) == <<QAdd(CenterOf(obj)[1], d[1]), QAdd(CenterOf(obj)[2], d[2])>>

\* drag-start pointers: off each corner, and at about 170 and -170 degrees
RotateStartInfos ==
  {[coordinate |-> c, object |-> Null] :
     c \in UNION {{FramePoint(objects[i], h[1], h[2], RotateOffset) :
                     h \in {-1, 1} \X {-1, 1}}
                    \cup {About(objects[i], Dir170), About(objects[i], DirMinus170)} :
                  i \in 1..Len(objects)}}

RotateInfos ==
  {[coordinate |-> c, object |-> Null] :
     c \in UNION {{About(objects[i], d) : d \in Directions} : i \in 1..Len(objects)}}

InitRotate ==
  /\ InitHook
  /\ \E rotation \in Rotations : objects = ResizeScene(rotation)
  /\ viewState = SceneView
  /\ canvasElement = SceneCanvas
  /\ \E step \in SnapSteps : config = [DEFAULT_CONFIG EXCEPT !.snapRotation = step]

NextRotate ==
  \/ /\ Ready
     /\ sessions < MaxSessions
     /\ \E info \in RotateStartInfos : handleDragStart(info)
  \/ /\ Ready
     /\ gesture.updates < MaxUpdates
     /\ Len(pending) < MaxPending
     /\ \E info \in RotateInfos : handleDrag(info)
  \/ Ready /\ handleDragEnd
  \/ Ready /\ handleKeyDown
  \/ Ready /\ handleKeyUp
  \/ Return

SpecRotate == InitRotate /\ [][NextRotate]_vars

(***************************************************************************)
(* SpecZone: the pointer hovers about one selected object, of several      *)
(* sizes and rotations, under several views.                               *)
(***************************************************************************)
ZoneScene(size, rotation) ==
  << Layer("1", <<1, 5>>, <<-2, 5>>, size[1], size[2], rotation, TRUE) >>

\* the object's width and height with the view it is seen under: the object
\* of the other scenes at 25 and (panned) at 50 pixels to the unit, a thin
\* one at 25, a tiny one at 12.5 pixels to the unit, and at the zoom
\* levels 8 and 10 (400 and 1600 pixels to the unit) the first object and the
\* tiny one, the view centred on it
SizedViews ==
  {<< << <<8, 5>>, <<6, 5>> >>, SceneView >>,
   << << <<8, 5>>, <<6, 5>> >>,
      [longitude |-> <<1, 2>>, latitude |-> <<-1, 4>>, zoom |-> 5] >>,
   << << <<1, 5>>, <<6, 5>> >>, SceneView >>,
   << << <<1, 5>>, <<1, 5>> >>,
      [longitude |-> <<0, 1>>, latitude |-> <<0, 1>>, zoom |-> 3] >>,
   << << <<8, 5>>, <<6, 5>> >>,
      [longitude |-> <<0, 1>>, latitude |-> <<0, 1>>, zoom |-> 8] >>,
   << << <<1, 5>>, <<1, 5>> >>,
      [longitude |-> <<3, 10>>, latitude |-> <<-3, 10>>, zoom |-> 10] >>}

\* distances (world units) of the pointer from an edge of the frame,
\* outwards; at 25 pixels to the unit they are -8, -4, 0, 4, 6, 8 and 12 pixels
EdgeOffsets == {<<-8, 25>>, <<-4, 25>>, <<0, 1>>, <<4, 25>>, <<6, 25>>, <<8, 25>>, <<12, 25>>}

\* the coordinates along one axis of the frame: off either end, and the middle
AxisPoints(low, length) ==
  {QSub(low, o) : o \in EdgeOffsets}
    \cup {QAdd(QAdd(low, length), o) : o \in EdgeOffsets}
    \cup {QAdd(low, QHalf(length))}

\* pointers on a grid of the object's own frame, turned with the object
GridPoints(obj) ==
  {toArray(VecRotWith(Vec(lx, ly), Vec(CenterOf(obj)[1], CenterOf(obj)[2]),
                      QDiv(obj.rotation, <<180, 1>>))) :
     lx \in AxisPoints(obj.x, obj.width), ly \in AxisPoints(obj.y, obj.height)}

HoverInfos ==
  {[coordinate |-> c, object |-> Null] :
     c \in UNION {GridPoints(objects[i]) : i \in 1..Len(objects)} \cup {Null}}

\* offsets on the screen, in pixels (x to the right, y downwards): 0, 5 and 6
\* pixels long, and two longer than the 6 of the resize distance
PixelOffsets == {<<0, 0>>, <<3, 4>>, <<-4, 3>>, <<-6, 0>>, <<0, -6>>, <<5, 5>>, <<-7, 0>>}

\* the number of screen pixels to the world unit at a zoom level
PixelsPerUnit(zoom) == QMul(Pow2(zoom - 8), <<400, 1>>)

\* the world position that is seen off pixels from where corner is seen
PixelPointer(corner, off, perUnit) ==
  <<QAdd(corner[1], QDiv(QI(off[1]), perUnit)), QSub(corner[2], QDiv(QI(off[2]), perUnit))>>

\* pointers at the pixel offsets from the corners of the first object; the
\* event carries the corner and the offset it was aimed with
PixelInfos ==
  {[coordinate |-> PixelPointer(getRotatedPolygon(objects[1])[k], off, PixelsPerUnit(viewState.zoom)),
    object |-> Null, corner |-> k, offset |-> off] :
     k \in 1..4, off \in PixelOffsets}

\* the rotations of the resize scenes, and a half turn
ZoneRotations == Rotations \cup {<<180, 1>>}

InitZone ==
  /\ InitHook
  /\ \E sized \in SizedViews, rotation \in ZoneRotations :
       /\ objects = ZoneScene(sized[1], rotation)
       /\ viewState = sized[2]
  /\ canvasElement = SceneCanvas
  /\ config = DEFAULT_CONFIG

NextZone ==
  \/ /\ Ready
     /\ hovers < MaxHovers
     /\ \E info \in HoverInfos \cup PixelInfos : handleHover(info)
  \/ Return

SpecZone == InitZone /\ [][NextZone]_vars

(***************************************************************************)
(* SpecOptions: the two objects of the first scene, each selected or not,   *)
(* the first turned by 0 or 90 degrees,                                     *)
(* with the viewport bound or not and each of enableResize, enableRotate    *)
(* and enableMove on or off; the pointer hovers, and then drags.            *)
(***************************************************************************)
OptionScene(rotation, selected1, selected2) ==
  << Layer("1", <<0, 1>>, <<0, 1>>, <<8, 5>>, <<6, 5>>, rotation, selected1),
     Layer("2", <<1, 1>>, <<4, 5>>, <<8, 5>>, <<6, 5>>, <<0, 1>>, selected2) >>

\* {...DEFAULT_CONFIG, ...userConfig} for a userConfig with the three flags
OptionConfig(resize, rotate, move) ==
  [DEFAULT_CONFIG EXCEPT !.enableResize = resize, !.enableRotate = rotate,
                         !.enableMove = move]

\* a hover reads info.coordinate only
OptionHoverInfos == {[coordinate |-> c, object |-> Null] : c \in Pointers \cup {Null}}

InitOptions ==
  /\ InitHook
  /\ \E rotation \in {<<0, 1>>, <<90, 1>>}, selected1 \in BOOLEAN, selected2 \in BOOLEAN :
       objects = OptionScene(rotation, selected1, selected2)
  /\ viewState = SceneView
  /\ canvasElement \in {SceneCanvas, Null}
  /\ \E resize \in BOOLEAN, rotate \in BOOLEAN, move \in BOOLEAN :
       config = OptionConfig(resize, rotate, move)

NextOptions ==
  \/ /\ Ready
     /\ sessions < MaxSessions
     /\ \E info \in Infos : handleDragStart(info)
  \/ /\ Ready
     /\ gesture.updates < MaxUpdates
     /\ Len(pending) < MaxPending
     /\ \E info \in DragInfos : handleDrag(info)
  \/ Ready /\ handleDragEnd
  \/ /\ Ready
     /\ hovers < MaxHovers
     /\ sessions = 0
     /\ \E info \in OptionHoverInfos : handleHover(info)
  \/ Return

SpecOptions == InitOptions /\ [][NextOptions]_vars

(***************************************************************************)
(* SpecEvents: drag-start, drag-update and drag-end events in any order;    *)
(* a drag-start may come while a session is active.                         *)
(***************************************************************************)
MaxStarts == 2

NextEvents ==
  \/ /\ Ready
     /\ sessions < MaxStarts
     /\ \E info \in Infos : handleDragStart(info)
  \/ /\ Ready
     /\ gesture.updates < MaxUpdates
     /\ Len(pending) < MaxPending
     /\ \E info \in DragInfos : handleDrag(info)
  \/ Ready /\ handleDragEnd
  \/ Return

SpecEvents == Init /\ [][NextEvents]_vars

(***************************************************************************)
(* SpecAxis: the axis-aligned hook.  Resize sessions on an object that is   *)
(* not turned, the pointer dragged outwards, across the object and beyond   *)
(* its far side, with shift pressed or not.                                 *)
(***************************************************************************)
AxisOffsets ==
  {<< <<0, 1>>, <<0, 1>> >>, << <<2, 5>>, <<1, 5>> >>, << <<-1, 5>>, <<-2, 5>> >>,
   << <<-2, 1>>, <<-2, 1>> >>, << <<2, 1>>, <<2, 1>> >>}

AxisInfos ==
  IF gesture.start = Null THEN {[coordinate |-> FarPoint, object |-> Null]}
  ELSE {[coordinate |-> <<QAdd(gesture.start[1], d[1]), QAdd(gesture.start[2], d[2])>>,
         object |-> Null] : d \in AxisOffsets}

InitAxis ==
  /\ InitHook
  /\ objects \in {ResizeScene(<<0, 1>>), TenByTen}
  /\ viewState = SceneView
  /\ canvasElement = SceneCanvas
  /\ config = DEFAULT_CONFIG

NextAxis ==
  \/ /\ Ready
     /\ sessions < MaxSessions
     /\ \E info \in HandleInfos : handleDragStart(info)
  \/ /\ Ready
     /\ gesture.updates < MaxUpdates
     /\ Len(pending) < MaxPending
     /\ \E info \in AxisInfos : handleDragAxisAligned(info)
  \/ Ready /\ handleDragEnd
  \/ Ready /\ handleKeyDown
  \/ Ready /\ handleKeyUp
  \/ Return
  \/ Ready /\ HostApply

SpecAxis == InitAxis /\ [][NextAxis]_vars

(***************************************************************************)
(* SpecOverlay: the scenes of SpecZone with a second object, each selected  *)
(* or not, the viewport bound or not, and the resize and rotate zones on or *)
(* off; the host renders, which calls generateLayers.                       *)
(***************************************************************************)
\* the host renders: generateLayers runs over the dataGeneration module the
\* hook is built with, which is one or the other of the two
renderLayers(lib) ==
  /\ lastEvent' = [handler |-> "generateLayers", info |-> Null, lib |-> lib,
                   layers |-> IF lib
                              THEN generateLayersLib(objects, viewState, canvasElement, config)
                              ELSE generateLayers(objects, viewState, canvasElement, config)]
  /\ notes' = <<>>
  /\ UNCHANGED <<objects, props, dragging, keyPressed, hover, pending, gesture, sessions, outstanding>>

OverlayScene(size, rotation, selected1, selected2) ==
  << Layer("1", <<1, 5>>, <<-2, 5>>, size[1], size[2], rotation, selected1),
     Layer("2", <<1, 1>>, <<4, 5>>, <<8, 5>>, <<6, 5>>, <<0, 1>>, selected2) >>

InitOverlay ==
  /\ InitHook
  /\ \E sized \in SizedViews, rotation \in ZoneRotations, selected1 \in BOOLEAN, selected2 \in BOOLEAN :
       /\ objects = OverlayScene(sized[1], rotation, selected1, selected2)
       /\ viewState = sized[2]
  /\ canvasElement \in {SceneCanvas, Null}
  /\ \E resize \in BOOLEAN, rotate \in BOOLEAN : config = OptionConfig(resize, rotate, TRUE)

NextOverlay ==
  \/ /\ Ready
     /\ \E lib \in BOOLEAN : renderLayers(lib)
  \/ Return

SpecOverlay == InitOverlay /\ [][NextOverlay]_vars

(***************************************************************************)
(* Properties of the session state machine (Spec)                          *)
(***************************************************************************)
\* the index in the list of the object the session began on, or 0
GestureIndex == IF gesture.object = Null THEN 0 ELSE FindIndex(objects, gesture.object.id)

\* C3: a drag-update delivered while no session is active (none was started,
\* or the last one was ended) emits no notification, leaves the session state
\* as it is (no session) and changes no object and no request to the host.
C3_DragWithoutSessionIsNoOp ==
  [][(gesture.start = Null /\ lastEvent'.handler = "drag")
       => /\ notes' = <<>>
          /\ dragging' = Null
          /\ dragging = Null
          /\ objects' = objects
          /\ pending' = pending]_vars

\* a drag-update with a pointer was handled after a session had been ended
C3_Witness ==
  /\ lastEvent.handler = "drag"
  /\ lastEvent.info.coordinate # Null
  /\ sessions > 0
  /\ gesture.start = Null
  /\ dragging = Null

\* C4: drag-end leaves no session in whatever state it is delivered; when a
\* session was active and its object is in the list, it emits exactly one
\* 'end' notification, for that object; it emits no 'update' and changes no
\* object and no request to the host.
C4_DragEndLeavesIdle ==
  [][lastEvent'.handler = "dragEnd"
       => /\ dragging' = Null
          /\ objects' = objects
          /\ pending' = pending
          /\ \A n \in 1..Len(notes') : notes'[n].kind # "update"
          /\ (dragging # Null /\ FindIndex(objects, dragging.layerId) # 0)
               => notes' = <<[kind |-> "end", id |-> dragging.layerId]>>]_vars

\* a drag-end was handled while a session was active and emitted its one 'end'
C4_Witness ==
  /\ lastEvent.handler = "dragEnd"
  /\ Len(notes) = 1
  /\ notes[1].kind = "end"
  /\ dragging = Null
  /\ sessions > 0

\* the selected objects that have a zone at the point
ZonesAt(c) ==
  {i \in 1..Len(objects) :
     /\ objects[i].selected
     /\ getHoverZone(objects[i], c[1], c[2], viewState, canvasElement, config) # Null}

\* the session is on object i, with the kind and handle of i's zone at c
SessionOfZone(i, c) ==
  LET zone == getHoverZone(objects[i], c[1], c[2], viewState, canvasElement, config)
  IN  /\ dragging # Null
      /\ dragging.layerId = objects[i].id
      /\ dragging.type = zone.type
      /\ dragging.handle = zone.handle
      /\ dragging.startX = c[1]
      /\ dragging.startY = c[2]

\* C5: after a drag-start whose pointer lies in a resize or rotate zone of some
\* selected object, the session has the kind and handle of such a zone and is
\* on that object, whatever object was picked; the session is a move only
\* when no selected object has a zone at the pointer.
C5_ZoneBeatsPick ==
  (lastEvent.handler = "dragStart" /\ lastEvent.info.coordinate # Null)
    => LET c == lastEvent.info.coordinate
       IN  /\ ZonesAt(c) # {} => \E i \in ZonesAt(c) : SessionOfZone(i, c)
           /\ (dragging # Null /\ dragging.type = "move") => ZonesAt(c) = {}

\* a resize or rotate session began on a selected object although another
\* object, whose rectangle contains the pointer, was picked
C5_Witness ==
  /\ lastEvent.handler = "dragStart"
  /\ lastEvent.info.coordinate # Null
  /\ lastEvent.info.object # Null
  /\ dragging # Null
  /\ dragging.type \in {"resize", "rotate"}
  /\ lastEvent.info.object.layerId # dragging.layerId
  /\ \E i \in 1..Len(objects) :
       /\ objects[i].id = lastEvent.info.object.layerId
       /\ isPointInsideLayer(objects[i], lastEvent.info.coordinate[1],
                              lastEvent.info.coordinate[2])

\* every update of the session was applied before the next one was computed,
\* and none is waiting
AppliedInStep ==
  /\ ~gesture.lagged
  /\ \A n \in 1..Len(pending) : pending[n].kind # "update"

\* C6: in a move session whose updates the host applies one by one, the
\* object lies at its drag-start position displaced by (last pointer -
\* drag-start pointer), with the width, height and rotation it had.
C6_MoveFollowsPointer ==
  (/\ dragging # Null
   /\ dragging.type = "move"
   /\ gesture.updates > 0
   /\ AppliedInStep
   /\ GestureIndex # 0)
    => LET obj == objects[GestureIndex]
           was == gesture.object
       IN  /\ obj.x = QAdd(was.x, QSub(gesture.last[1], gesture.start[1]))
           /\ obj.y = QAdd(was.y, QSub(gesture.last[2], gesture.start[2]))
           /\ obj.width = was.width
           /\ obj.height = was.height
           /\ obj.rotation = was.rotation

\* two updates of a move session were applied and the pointer is off its start
C6_Witness ==
  /\ dragging # Null
  /\ dragging.type = "move"
  /\ gesture.updates = 2
  /\ AppliedInStep
  /\ GestureIndex # 0
  /\ gesture.last # gesture.start
  /\ objects[GestureIndex].x # gesture.object.x

(***************************************************************************)
(* Properties of the resize (SpecResize)                                   *)
(***************************************************************************)
\* a resize session has just emitted an update
ResizeEmitted ==
  /\ lastEvent.handler = "drag"
  /\ dragging # Null
  /\ dragging.type = "resize"
  /\ Len(notes) = 1
  /\ notes[1].kind = "update"

Mid(p, q) == <<QHalf(QAdd(p[1], q[1])), QHalf(QAdd(p[2], q[2]))>>

CornersOf(poly) == {poly[i] : i \in 1..4}
EdgeMidpointsOf(poly) == {Mid(poly[i], poly[(i % 4) + 1]) : i \in 1..4}

\* the point of the rectangle poly (corners nw, ne, se, sw) opposite a handle
OppositePoint(handle, poly) ==
  CASE handle = "nw" -> poly[3]
    [] handle = "ne" -> poly[4]
    [] handle = "se" -> poly[1]
    [] handle = "sw" -> poly[2]
    [] handle = "n" -> Mid(poly[4], poly[3])
    [] handle = "s" -> Mid(poly[1], poly[2])
    [] handle = "e" -> Mid(poly[1], poly[4])
    [] handle = "w" -> Mid(poly[2], poly[3])

\* C1: when a resize session emits bounds, the point opposite the dragged
\* handle on the original rectangle (turned about its own centre) is, at the
\* same world position, a corner of the emitted rectangle (turned about its
\* new centre) for a corner handle, and the midpoint of one of its edges for
\* an edge handle.
C1_ScaleOriginStaysFixed ==
  ResizeEmitted
    => LET target == objects[FindIndex(objects, notes[1].id)]
           before == getRotatedPolygon(Merge(target, dragging.originalBounds))
           after == getRotatedPolygon(Merge(target, notes[1].changes))
           origin == OppositePoint(dragging.handle, before)
       IN  IF dragging.handle \in {"nw", "ne", "se", "sw"}
           THEN origin \in CornersOf(after)
           ELSE origin \in EdgeMidpointsOf(after)

\* an obliquely turned object was resized by a corner to another size
C1_Witness ==
  /\ ResizeEmitted
  /\ dragging.handle = "ne"
  /\ gesture.object.rotation = Q(12687, 100)
  /\ notes[1].changes.width # dragging.originalBounds.width
  /\ notes[1].changes.height # dragging.originalBounds.height
  /\ notes[1].changes.x # dragging.originalBounds.x

BoundsOf(obj) == [x |-> obj.x, y |-> obj.y, width |-> obj.width, height |-> obj.height]

\* the session as the drag-start made it, rebuilt from the object and the
\* pointer of the drag-start
SnapshotAtStart ==
  LET c == gesture.start
      zone == getHoverZone(gesture.object, c[1], c[2], viewState, canvasElement, config)
  IN  [layerId |-> gesture.object.id, startX |-> c[1], startY |-> c[2],
       type |-> zone.type, handle |-> zone.handle,
       originalAspectRatio |-> QDiv(gesture.object.width, gesture.object.height),
       originalBounds |-> BoundsOf(gesture.object), startRotation |-> Null]

\* C2: the bounds a resize session emits are the resize computed from the
\* drag-start snapshot (bounds, pointer, handle), the object's rotation, the
\* shift key and the current pointer alone, whatever updates were emitted and
\* applied before; with the pointer back on the drag-start point they are the
\* original bounds (when those meet the minimum size).
C2_ResizeFromSnapshotOnly ==
  ResizeEmitted
    => LET p == lastEvent.info.coordinate
           was == gesture.object
       IN  /\ \A snapshot \in {SnapshotAtStart} :
                notes[1].changes =
                  resizeChanges(was, snapshot, p[1], p[2], keyPressed.shift, config)
           /\ (/\ p = gesture.start
               /\ QLe(config.minWidth, was.width)
               /\ QLe(config.minHeight, was.height))
                => notes[1].changes = BoundsOf(was)

\* the second update of a session brought the pointer back to the drag-start
\* point after the first, which the host applied, had resized the object
C2_Witness ==
  /\ ResizeEmitted
  /\ gesture.updates = 2
  /\ lastEvent.info.coordinate = gesture.start
  /\ GestureIndex # 0
  /\ BoundsOf(objects[GestureIndex]) # BoundsOf(gesture.object)
  /\ notes[1].changes = BoundsOf(gesture.object)

(***************************************************************************)
(* Properties of the rotation (SpecRotate)                                 *)
(***************************************************************************)
\* a rotate session has just emitted an update
RotateEmitted ==
  /\ lastEvent.handler = "drag"
  /\ dragging # Null
  /\ dragging.type = "rotate"
  /\ Len(notes) = 1
  /\ notes[1].kind = "update"

\* C7: every rotation a rotate session emits is at least 0 and less than 360.
C7_RotationInRange ==
  RotateEmitted
    => /\ QLe(<<0, 1>>, notes[1].changes.rotation)
       /\ QLt(notes[1].changes.rotation, <<360, 1>>)

\* the direction, in degrees, from the centre of the session's object to p
DirectionDeg(p) ==
  LET centre == CenterOf(objects[FindIndex(objects, notes[1].id)])
  IN  QMul(MathAtan2(QSub(p[2], centre[2]), QSub(p[1], centre[1])), <<180, 1>>)

\* the signed angle from the direction of the drag-start pointer to the
\* direction of the current pointer, in (-180, 180]
SignedTurn ==
  LET raw == QSub(DirectionDeg(lastEvent.info.coordinate), DirectionDeg(gesture.start))
  IN  IF QLt(<<180, 1>>, raw) THEN QSub(raw, <<360, 1>>)
      ELSE IF QLe(raw, <<-180, 1>>) THEN QAdd(raw, <<360, 1>>)
      ELSE raw

\* a number of (-360, 720) brought into [0, 360)
Into360(deg) ==
  IF QLt(deg, <<0, 1>>) THEN QAdd(deg, <<360, 1>>)
  ELSE IF QLe(<<360, 1>>, deg) THEN QSub(deg, <<360, 1>>)
  ELSE deg

\* the pointer went from the direction 170 degrees to the direction -170
From170ToMinus170 ==
  /\ gesture.start = About(gesture.object, Dir170)
  /\ lastEvent.info.coordinate = About(gesture.object, DirMinus170)

\* the snap, with shift pressed, took a rotation of more than 352.5 to 0
C7_Witness ==
  /\ RotateEmitted
  /\ keyPressed.shift
  /\ config.snapRotation = <<15, 1>>
  /\ QLt(<<705, 2>>, Into360(QAdd(gesture.object.rotation, SignedTurn)))
  /\ notes[1].changes.rotation = <<0, 1>>

\* C8: without shift, a rotate session emits the rotation of the drag-start
\* plus the signed angle (in (-180, 180]) from the direction of the drag-start
\* pointer to that of the current pointer, brought into [0, 360); from 170
\* degrees to -170 degrees that angle is about +20 degrees.
C8_RotationAddsSignedTurn ==
  (RotateEmitted /\ ~keyPressed.shift)
    => /\ notes[1].changes.rotation =
            Into360(QAdd(gesture.object.rotation, SignedTurn))
       /\ From170ToMinus170
            => (QLt(<<19, 1>>, SignedTurn) /\ QLt(SignedTurn, <<21, 1>>))

\* a rotate session took the pointer from 170 degrees to -170 degrees
C8_Witness ==
  /\ RotateEmitted
  /\ ~keyPressed.shift
  /\ From170ToMinus170
  /\ QLt(<<169, 1>>, DirectionDeg(gesture.start))
  /\ QLt(DirectionDeg(lastEvent.info.coordinate), <<-169, 1>>)

\* a rotate session has just emitted an update with shift pressed
SnapEmitted == RotateEmitted /\ keyPressed.shift

\* the rotation the update would carry without the snap
Unsnapped == Into360(QAdd(gesture.object.rotation, SignedTurn))

\* the multiples of the snap step from 0 to the first one beyond 360
SnapMultiples ==
  {QMul(QI(k), config.snapRotation) :
     k \in 0..(MathFloor(QDiv(<<360, 1>>, config.snapRotation)) + 1)}

\* the multiples nearest to a rotation: one, or two at a tie
NearestMultiplesTo(rotation, multiples) ==
  {m \in multiples :
     \A n \in multiples :
       QLe(MathAbs(QSub(rotation, m)), MathAbs(QSub(rotation, n)))}

\* C18, as the code has it: with shift pressed, the rotation a rotate
\* session emits is a multiple of snapRotation: the multiple nearest to the
\* unsnapped rotation, with every multiple of 360 or more (not 360 alone)
\* mapped to 0; with the default 15 it is one of 0, 15, ..., 345
C18_SnapToMultiple ==
  SnapEmitted =>
    \A near \in {NearestMultiplesTo(u, SnapMultiples) : u \in {Unsnapped}} :
      /\ notes[1].changes.rotation \in SnapMultiples
      /\ notes[1].changes.rotation \in
           {IF QLe(<<360, 1>>, m) THEN <<0, 1>> ELSE m : m \in near}
      /\ config.snapRotation = <<15, 1>> =>
           notes[1].changes.rotation \in {<<15 * k, 1>> : k \in 0..23}

\* C18, as the claim words it: the emitted rotation is the nearest multiple,
\* with 360 mapped to 0
C18_NearestWith360AsZero ==
  SnapEmitted =>
    \A near \in {NearestMultiplesTo(u, SnapMultiples) : u \in {Unsnapped}} :
      /\ notes[1].changes.rotation \in SnapMultiples
      /\ notes[1].changes.rotation \in
           {IF m = <<360, 1>> THEN <<0, 1>> ELSE m : m \in near}
      /\ config.snapRotation = <<15, 1>> =>
           notes[1].changes.rotation \in {<<15 * k, 1>> : k \in 0..23}

\* with a snap step of 100 and an unsnapped rotation of 350 or more, whose
\* nearest multiple is 400, the update carries 0
C18_Witness ==
  /\ SnapEmitted
  /\ config.snapRotation = <<100, 1>>
  /\ notes[1].changes.rotation = <<0, 1>>
  /\ \E u \in {Unsnapped} :
       /\ QLe(<<350, 1>>, u)
       /\ NearestMultiplesTo(u, SnapMultiples) = {<<400, 1>>}

\* with the default step of 15 the snap moved the rotation to a multiple
\* other than 0
C18_WitnessDefault ==
  /\ SnapEmitted
  /\ config.snapRotation = <<15, 1>>
  /\ notes[1].changes.rotation # Unsnapped
  /\ notes[1].changes.rotation # <<0, 1>>
  /\ \E u \in {Unsnapped} :
       notes[1].changes.rotation \in NearestMultiplesTo(u, SnapMultiples)

(***************************************************************************)
(* Properties of SpecZone                                                  *)
(***************************************************************************)
\* a hover event over a world coordinate has just been handled, with the
\* first object of the list selected and the viewport bound
Hovered ==
  /\ lastEvent.handler = "hover"
  /\ lastEvent.info.coordinate # Null
  /\ Len(objects) > 0
  /\ objects[1].selected
  /\ canvasElement # Null

\* the four projected corners of the first object, and the projected pointer
ProjectedCorners ==
  LET corners == getRotatedPolygon(objects[1])
  IN  <<worldToScreen(corners[1], viewState, canvasElement),
        worldToScreen(corners[2], viewState, canvasElement),
        worldToScreen(corners[3], viewState, canvasElement),
        worldToScreen(corners[4], viewState, canvasElement)>>

ProjectedPointer == worldToScreen(lastEvent.info.coordinate, viewState, canvasElement)

\* the corners, and the edges, within d pixels of the pointer
CornersWithin(d) ==
  {k \in 1..4 : SqrtLe(cornerDistanceSq(ProjectedPointer, ProjectedCorners, k), d)}

EdgesWithin(d) ==
  {k \in 1..4 : SqrtLe(edgeDistanceSq(ProjectedPointer, ProjectedCorners, k), d)}

\* C9: with resize enabled, a pointer within the resize distance of one of
\* the four projected corners of the selected object is classified as Resize
\* with the handle of a corner it is that near to, never as Rotate and never
\* with an edge handle, whatever the rotation and the view
C9_CornerResizeFirst ==
  (Hovered /\ config.enableResize) =>
    \A near \in {CornersWithin(config.resizeZoneDistance)} :
      near # {} =>
        /\ hoveredHandle # Null
        /\ hoveredHandle.zoneType = "resize"
        /\ hoveredHandle.handleType \in {cornerNames[k] : k \in near}

\* an object turned by no quarter turn, the pointer near a corner but not on it, and an edge
\* within the resize distance as well: the corner's handle is hovered
C9_Witness ==
  /\ Hovered
  /\ config.enableResize
  /\ AngleRest(QDiv(objects[1].rotation, <<180, 1>>)) # <<0, 1>>
  /\ CornersWithin(config.resizeZoneDistance) # {}
  /\ CornersWithin(<<0, 1>>) = {}
  /\ EdgesWithin(config.resizeZoneDistance) # {}
  /\ hoveredHandle # Null
  /\ hoveredHandle.zoneType = "resize"
  /\ hoveredHandle.handleType \in {cornerNames[k] : k \in 1..4}

\* C10: a pointer farther than the resize distance from all four projected
\* corners but within it of a projected edge is classified as Resize with the
\* handle of an edge it is that near to, also when a corner is within the
\* rotate distance; and Rotate is the class only when no corner and no edge
\* is within the resize distance
C10_EdgeResizeBeforeRotate ==
  (Hovered /\ config.enableResize) =>
    \A corners \in {CornersWithin(config.resizeZoneDistance)},
       edges \in {EdgesWithin(config.resizeZoneDistance)} :
      /\ (corners = {} /\ edges # {}) =>
           /\ hoveredHandle # Null
           /\ hoveredHandle.zoneType = "resize"
           /\ hoveredHandle.handleType \in {edgeNames[k] : k \in edges}
      /\ (hoveredHandle # Null /\ hoveredHandle.zoneType = "rotate") =>
           corners = {} /\ edges = {}

\* the pointer is outside the resize distance of every corner, inside the
\* rotate distance of one, and near an edge: the edge's handle is hovered
C10_Witness ==
  /\ Hovered
  /\ config.enableResize
  /\ config.enableRotate
  /\ CornersWithin(config.resizeZoneDistance) = {}
  /\ CornersWithin(config.rotateZoneDistance) # {}
  /\ EdgesWithin(config.resizeZoneDistance) # {}
  /\ hoveredHandle # Null
  /\ hoveredHandle.zoneType = "resize"
  /\ hoveredHandle.handleType \in {edgeNames[k] : k \in 1..4}

\* a hover event aimed at a pixel offset from a corner of the first object
\* has just been handled
HoveredAtPixels == Hovered /\ "offset" \in DOMAIN lastEvent.info

\* the offset on the screen from the projected corner the event was aimed at
\* to the projected pointer
ScreenOffset ==
  <<QSub(ProjectedPointer.x, ProjectedCorners[lastEvent.info.corner].x),
    QSub(ProjectedPointer.y, ProjectedCorners[lastEvent.info.corner].y)>>

\* the squared length, in pixels, of the offset the event was aimed with
AimedLengthSq ==
  QI(lastEvent.info.offset[1] * lastEvent.info.offset[1]
       + lastEvent.info.offset[2] * lastEvent.info.offset[2])

\* C11: the tolerance of the classification is in screen pixels: at every
\* zoom level a pointer aimed a fixed number of pixels from a corner of the
\* selected object is projected exactly that offset from the projected
\* corner, and when the offset is at most resizeZoneDistance pixels long the
\* class is Resize, whatever the world distance that offset spans
C11_PixelTolerance ==
  (HoveredAtPixels /\ config.enableResize) =>
    /\ ScreenOffset = <<QI(lastEvent.info.offset[1]), QI(lastEvent.info.offset[2])>>
    /\ SqrtLe(AimedLengthSq, config.resizeZoneDistance) =>
         /\ hoveredHandle # Null
         /\ hoveredHandle.zoneType = "resize"

\* at zoom 10, where 5 pixels are 1/320 of a unit, a pointer 5 pixels from a
\* corner is in the resize zone
C11_Witness ==
  /\ HoveredAtPixels
  /\ config.enableResize
  /\ viewState.zoom = 10
  /\ AimedLengthSq = <<25, 1>>
  /\ hoveredHandle # Null
  /\ hoveredHandle.zoneType = "resize"

\* the same, at zoom 3, where 5 pixels are 2/5 of a unit
C11_WitnessLowZoom ==
  /\ HoveredAtPixels
  /\ viewState.zoom = 3
  /\ AimedLengthSq = <<25, 1>>
  /\ hoveredHandle # Null
  /\ hoveredHandle.zoneType = "resize"

HandleCorner(handle, poly) == poly[CHOOSE i \in 1..4 : cornerNames[i] = handle]

\* p seen from the point origin in the frame of the session's object
LocalFrom(p, origin) ==
  VecRot(Vec(QSub(p[1], origin[1]), QSub(p[2], origin[2])),
         QNeg(QDiv(gesture.object.rotation, <<180, 1>>)))

\* a resize session on a corner handle, begun with the pointer on that
\* corner, has just emitted an update without shift
CornerDragEmitted ==
  /\ ResizeEmitted
  /\ ~keyPressed.shift
  /\ dragging.handle \in {"nw", "ne", "se", "sw"}
  /\ gesture.start = HandleCorner(dragging.handle, getRotatedPolygon(gesture.object))

\* both are on the same side of the origin on both axes, and cur is at least
\* the minimum width and height away from it
SameSideUnclamped(cur, start) ==
  /\ QLt(<<0, 1>>, QMul(cur.x, start.x))
  /\ QLt(<<0, 1>>, QMul(cur.y, start.y))
  /\ QLe(config.minWidth, MathAbs(cur.x))
  /\ QLe(config.minHeight, MathAbs(cur.y))

\* the emitted rectangle has the corner of the handle at p and the opposite
\* corner at origin
CornerAtPointer(after, p, origin) ==
  /\ HandleCorner(dragging.handle, after) = p
  /\ OppositePoint(dragging.handle, after) = origin

\* C19: in a resize session on a corner handle that began with the pointer on
\* that corner, without shift, every pointer p on the same side of the fixed
\* corner as the start pointer on both axes of the object's frame, and not
\* so near it that a minimum applies, gets a rectangle whose dragged corner
\* is at p and whose opposite corner is where it was; the object
\* {x: 0, y: 0, width: 10, height: 10}, not turned, dragged by se from
\* (10, 10) to (20, 15) gets {x: 0, y: 0, width: 20, height: 15}
C19_CornerFollowsPointer ==
  CornerDragEmitted =>
    \A origin \in {OppositePoint(dragging.handle, getRotatedPolygon(gesture.object))} :
      /\ SameSideUnclamped(LocalFrom(lastEvent.info.coordinate, origin),
                           LocalFrom(gesture.start, origin))
           => CornerAtPointer(getRotatedPolygon(Merge(gesture.object, notes[1].changes)),
                              lastEvent.info.coordinate, origin)
      /\ (/\ BoundsOf(gesture.object) = [x |-> <<0, 1>>, y |-> <<0, 1>>,
                                         width |-> <<10, 1>>, height |-> <<10, 1>>]
          /\ gesture.object.rotation = <<0, 1>>
          /\ dragging.handle = "se"
          /\ gesture.start = << <<10, 1>>, <<10, 1>> >>
          /\ lastEvent.info.coordinate = << <<20, 1>>, <<15, 1>> >>)
           => notes[1].changes = [x |-> <<0, 1>>, y |-> <<0, 1>>,
                                  width |-> <<20, 1>>, height |-> <<15, 1>>]

\* the object {x: 0, y: 0, width: 10, height: 10} was dragged by se from
\* (10, 10) to (20, 15)
C19_Witness ==
  /\ CornerDragEmitted
  /\ gesture.object.width = <<10, 1>>
  /\ dragging.handle = "se"
  /\ gesture.start = << <<10, 1>>, <<10, 1>> >>
  /\ lastEvent.info.coordinate = << <<20, 1>>, <<15, 1>> >>
  /\ notes[1].changes.width = <<20, 1>>
  /\ notes[1].changes.height = <<15, 1>>

\* an obliquely turned object was dragged by a corner to a pointer on the
\* same side of the fixed corner, and the corner is at the pointer
C19_WitnessTurned ==
  /\ CornerDragEmitted
  /\ AngleRest(QDiv(gesture.object.rotation, <<180, 1>>)) # <<0, 1>>
  /\ lastEvent.info.coordinate # gesture.start
  /\ HandleCorner(dragging.handle,
                  getRotatedPolygon(Merge(gesture.object, notes[1].changes)))
       = lastEvent.info.coordinate

\* a resize session has just emitted an update with shift pressed
AspectEmitted == ResizeEmitted /\ keyPressed.shift

\* the magnitude of the scale along one axis: the distance of the pointer
\* from the fixed point over that of the start pointer, or 1
ScaleMagnitude(cur, start) ==
  IF QIsZero(start) THEN <<1, 1>> ELSE MathAbs(QDiv(cur, start))

QMax(a, b) == IF QLt(a, b) THEN b ELSE a

\* the magnitude that the aspect lock makes common to both axes: that of the
\* dragged axis for an edge handle, the larger of the two for a corner handle
CommonMagnitude(handle, cur, start) ==
  IF handle \in {"w", "e"} THEN ScaleMagnitude(cur.x, start.x)
  ELSE IF handle \in {"n", "s"} THEN ScaleMagnitude(cur.y, start.y)
  ELSE QMax(ScaleMagnitude(cur.x, start.x), ScaleMagnitude(cur.y, start.y))

\* no minimum applies to a size scaled by m
Unclamped(m) ==
  /\ QLe(config.minWidth, QMul(dragging.originalBounds.width, m))
  /\ QLe(config.minHeight, QMul(dragging.originalBounds.height, m))

\* both sizes are the original ones times m, and so in the original ratio
ScaledAlike(changes, m) ==
  /\ changes.width = QMul(dragging.originalBounds.width, m)
  /\ changes.height = QMul(dragging.originalBounds.height, m)
  /\ QMul(changes.width, dragging.originalBounds.height)
       = QMul(changes.height, dragging.originalBounds.width)

\* C20: with shift pressed, a resize session emits a width and a height
\* that are the original ones times one common magnitude, and so in the
\* original ratio, whenever no minimum applies: on a corner handle the
\* larger of |scaleX| and |scaleY|, on an edge handle the magnitude of the
\* scale of the dragged axis, which the locked axis takes over
C20_AspectLocked ==
  AspectEmitted =>
    \A origin \in {OppositePoint(dragging.handle, getRotatedPolygon(gesture.object))} :
      \A m \in {CommonMagnitude(dragging.handle,
                                LocalFrom(lastEvent.info.coordinate, origin),
                                LocalFrom(gesture.start, origin))} :
        Unclamped(m) => ScaledAlike(notes[1].changes, m)

\* a corner of an obliquely turned object was dragged with shift pressed, the
\* two axes by different magnitudes, and the sizes changed alike
C20_Witness ==
  /\ AspectEmitted
  /\ dragging.handle \in {"nw", "ne", "se", "sw"}
  /\ AngleRest(QDiv(gesture.object.rotation, <<180, 1>>)) # <<0, 1>>
  /\ notes[1].changes.width # dragging.originalBounds.width
  /\ notes[1].changes.width # config.minWidth
  /\ \E origin \in {OppositePoint(dragging.handle, getRotatedPolygon(gesture.object))} :
       /\ ScaleMagnitude(LocalFrom(lastEvent.info.coordinate, origin).x,
                         LocalFrom(gesture.start, origin).x)
            # ScaleMagnitude(LocalFrom(lastEvent.info.coordinate, origin).y,
                             LocalFrom(gesture.start, origin).y)
  /\ QMul(notes[1].changes.width, dragging.originalBounds.height)
       = QMul(notes[1].changes.height, dragging.originalBounds.width)

\* an edge was dragged with shift pressed, and the height changed with the width
C20_WitnessEdge ==
  /\ AspectEmitted
  /\ dragging.handle \in {"w", "e"}
  /\ notes[1].changes.height # dragging.originalBounds.height
  /\ notes[1].changes.height # config.minHeight
  /\ QMul(notes[1].changes.width, dragging.originalBounds.height)
       = QMul(notes[1].changes.height, dragging.originalBounds.width)

(***************************************************************************)
(* Properties of what a drag-update does to the session (Spec)             *)
(***************************************************************************)
\* C13: a drag-update of a rotate or resize session leaves the session as it
\* is: its start pointer, startRotation and originalBounds, and every other
\* field; a drag-update changes the session only when it is a move session,
\* and then only startX and startY, which become the current pointer
C13_OnlyMoveRebaselines ==
  [][(lastEvent'.handler = "drag" /\ dragging # Null)
       => /\ dragging.type \in {"rotate", "resize"} => dragging' = dragging
          /\ dragging' # dragging
               => /\ dragging.type = "move"
                  /\ dragging' = [dragging EXCEPT
                                    !.startX = lastEvent'.info.coordinate[1],
                                    !.startY = lastEvent'.info.coordinate[2]]
          /\ (dragging.type = "move" /\ notes' # <<>>)
               => /\ dragging'.startX = lastEvent'.info.coordinate[1]
                  /\ dragging'.startY = lastEvent'.info.coordinate[2]]_vars

\* a rotate session emitted an update for a pointer away from its start
\* pointer, and still has the start pointer and rotation of the drag-start
C13_Witness ==
  /\ lastEvent.handler = "drag"
  /\ dragging # Null
  /\ dragging.type = "rotate"
  /\ Len(notes) = 1
  /\ notes[1].kind = "update"
  /\ lastEvent.info.coordinate # gesture.start
  /\ <<dragging.startX, dragging.startY>> = gesture.start
  /\ dragging.startRotation = gesture.object.rotation

\* a move session emitted an update and its start pointer is the current one
C13_WitnessMove ==
  /\ lastEvent.handler = "drag"
  /\ dragging # Null
  /\ dragging.type = "move"
  /\ Len(notes) = 1
  /\ lastEvent.info.coordinate # gesture.start
  /\ <<dragging.startX, dragging.startY>> = lastEvent.info.coordinate

\* a session is active and no object of the list has its object's id
ObjectGone ==
  /\ dragging # Null
  /\ \A i \in 1..Len(objects) : objects[i].id # dragging.layerId

\* C16: while the session's object is not in the list, a drag-update emits
\* no notification and leaves the session as it is, the start pointer of a
\* move session included, and a drag-end emits no notification; neither
\* changes an object or sends the host a request
C16_GoneObjectNoNotification ==
  [][ObjectGone
       => /\ lastEvent'.handler = "drag"
               => /\ notes' = <<>>
                  /\ dragging' = dragging
                  /\ pending' = pending
                  /\ objects' = objects
          /\ lastEvent'.handler = "dragEnd"
               => /\ notes' = <<>>
                  /\ pending' = pending
                  /\ objects' = objects]_vars

\* a drag-update with a pointer away from the start pointer was handled in a
\* move session whose object the host had removed: the start pointer stays
C16_Witness ==
  /\ lastEvent.handler = "drag"
  /\ lastEvent.info.coordinate # Null
  /\ ObjectGone
  /\ dragging.type = "move"
  /\ lastEvent.info.coordinate # gesture.start
  /\ <<dragging.startX, dragging.startY>> = gesture.start
  /\ notes = <<>>

(***************************************************************************)
(* Properties of SpecOptions                                               *)
(***************************************************************************)
\* a drag-start or a hover with a pointer has just been handled
Pointed ==
  /\ lastEvent.handler \in {"dragStart", "hover"}
  /\ lastEvent.info.coordinate # Null

\* C14: getHoverZone returns null at the pointer of the event for every
\* object that is not selected, and for every object when no canvas element
\* is bound; and with no canvas element bound the session after a drag-start
\* is a move session or none
C14_NoZoneUnselectedOrUnbound ==
  /\ Pointed =>
       \A i \in 1..Len(objects) :
         (~objects[i].selected \/ canvasElement = Null) =>
           ZoneOfIndex(i, lastEvent.info.coordinate[1], lastEvent.info.coordinate[2]) = Null
  /\ (lastEvent.handler = "dragStart" /\ canvasElement = Null) =>
       (dragging = Null \/ dragging.type = "move")

\* with no canvas element bound, a drag-start on a corner of the selected
\* first object, which was picked, began a move
C14_Witness ==
  /\ lastEvent.handler = "dragStart"
  /\ canvasElement = Null
  /\ objects[1].selected
  /\ lastEvent.info.coordinate \in CornersOf(getRotatedPolygon(objects[1]))
  /\ dragging # Null
  /\ dragging.type = "move"
  /\ dragging.layerId = objects[1].id

\* a drag-start on a corner of the second object, which is not selected,
\* with the canvas element bound and resize enabled
C14_WitnessUnselected ==
  /\ lastEvent.handler = "dragStart"
  /\ canvasElement # Null
  /\ config.enableResize
  /\ ~objects[2].selected
  /\ lastEvent.info.coordinate \in CornersOf(getRotatedPolygon(objects[2]))
  /\ (dragging = Null \/ dragging.layerId # objects[2].id \/ dragging.type = "move")

\* C15: no drag-start begins a session of a kind that is disabled: the
\* session a drag-start leaves is a resize only with enableResize, a rotate
\* only with enableRotate and a move only with enableMove
C15_NoDisabledSession ==
  [][(lastEvent'.handler = "dragStart" /\ dragging' # Null)
       => /\ dragging'.type = "resize" => config.enableResize
          /\ dragging'.type = "rotate" => config.enableRotate
          /\ dragging'.type = "move" => config.enableMove]_vars

\* the distance of the pointer of the event from the nearest corner of the
\* first object is at most d pixels on the screen
NearCornerOfFirst(d) ==
  \E k \in 1..4 :
    SqrtLe(cornerDistanceSq(ProjectedPointer, ProjectedCorners, k), d)

\* with resize disabled and rotate enabled, a drag-start on a corner of the
\* selected first object began no resize: the pointer is not in the rotate
\* zone either, and what began is a move of the picked object
C15_Witness ==
  /\ lastEvent.handler = "dragStart"
  /\ lastEvent.info.coordinate # Null
  /\ canvasElement # Null
  /\ objects[1].selected
  /\ ~config.enableResize
  /\ config.enableRotate
  /\ config.enableMove
  /\ NearCornerOfFirst(config.resizeZoneDistance)
  /\ dragging # Null
  /\ dragging.type = "move"

\* with rotate disabled, a drag-start in the rotate zone of a corner of the
\* selected first object began no session
C15_WitnessRotate ==
  /\ lastEvent.handler = "dragStart"
  /\ lastEvent.info.coordinate # Null
  /\ canvasElement # Null
  /\ objects[1].selected
  /\ ~config.enableRotate
  /\ ~NearCornerOfFirst(config.resizeZoneDistance)
  /\ NearCornerOfFirst(config.rotateZoneDistance)
  /\ dragging = Null

\* with move disabled, a drag-start inside a picked object began no session
C15_WitnessMove ==
  /\ lastEvent.handler = "dragStart"
  /\ lastEvent.info.coordinate # Null
  /\ lastEvent.info.object # Null
  /\ ~config.enableMove
  /\ isPointInsideLayer(objects[FindIndex(objects, lastEvent.info.object.layerId)],
                        lastEvent.info.coordinate[1], lastEvent.info.coordinate[2])
  /\ dragging = Null

\* the cursor getCursorStyle returns in the state
Cursor == getCursor(dragging, hoveredHandle, objects, isHoveringInsideLayer, config)

\* hovered handles getCursor may be given: none, and a resize and a rotate zone
SomeHovered ==
  {Null, hoveredHandle,
   [layerId |-> "1", handleType |-> "n", zoneType |-> "resize"],
   [layerId |-> "2", handleType |-> "se", zoneType |-> "rotate"]}

ResizeCursors == {"ns-resize", "ew-resize", "nesw-resize", "nwse-resize"}
RotateCursors == {"nwse-rotate", "nesw-rotate", "senw-rotate", "swne-rotate"}

SomeSelected == \E i \in 1..Len(objects) : objects[i].selected

\* C17: the cursor follows the precedence session, hovered zone, inside
\* flag, idle.  With a session it is the same whatever the hovered handle
\* and the inside flag are: a resize cursor in a resize, a rotate cursor in a
\* rotate and 'move' in a move.  Without a session, with a hovered handle
\* and some object selected, it is the resize or rotate cursor of the zone
\* whatever the inside flag is.  Otherwise it is 'move' when the inside flag
\* is set and move is enabled, and 'grab' when not.
C17_CursorPrecedence ==
  /\ dragging # Null =>
       /\ \A h \in SomeHovered, inside \in BOOLEAN :
            getCursor(dragging, h, objects, inside, config) = Cursor
       /\ dragging.type = "resize" => Cursor \in ResizeCursors
       /\ dragging.type = "rotate" => Cursor \in RotateCursors
       /\ dragging.type = "move" => Cursor = "move"
  /\ (dragging = Null /\ hoveredHandle # Null /\ SomeSelected) =>
       /\ \A inside \in BOOLEAN :
            getCursor(dragging, hoveredHandle, objects, inside, config) = Cursor
       /\ hoveredHandle.zoneType = "resize" => Cursor \in ResizeCursors
       /\ hoveredHandle.zoneType = "rotate" => Cursor \in RotateCursors
  /\ (dragging = Null /\ ~(hoveredHandle # Null /\ SomeSelected)) =>
       Cursor = IF isHoveringInsideLayer /\ config.enableMove THEN "move" ELSE "grab"

\* a rotate session is active while the handle last hovered is a resize
\* handle and the inside flag is not set: the cursor is a rotate cursor
C17_Witness ==
  /\ dragging # Null
  /\ dragging.type = "rotate"
  /\ hoveredHandle # Null
  /\ hoveredHandle.zoneType = "resize"
  /\ Cursor \in RotateCursors

\* no session, a hovered resize handle on the object turned by 90 degrees
C17_WitnessHover ==
  /\ dragging = Null
  /\ hoveredHandle # Null
  /\ hoveredHandle.zoneType = "resize"
  /\ hoveredHandle.handleType = "n"
  /\ objects[1].rotation = <<90, 1>>
  /\ Cursor = "ew-resize"

\* no session, no hovered handle, the pointer inside a selected object
C17_WitnessInside ==
  /\ dragging = Null
  /\ hoveredHandle = Null
  /\ isHoveringInsideLayer
  /\ config.enableMove
  /\ Cursor = "move"

(***************************************************************************)
(* Properties of the session a drag-start makes (Spec)                     *)
(***************************************************************************)
\* C21: the session a drag-start makes has the pointer of the drag-start as
\* its start pointer; a resize session has one of the eight handles and the
\* x, y, width and height its object has at the drag-start as originalBounds;
\* a rotate session has a corner handle and the rotation its object has at
\* the drag-start as startRotation; a move session has no handle
C21_SessionWellFormed ==
  [][(lastEvent'.handler = "dragStart" /\ dragging' # dragging)
       => /\ dragging' # Null
          /\ FindIndex(objects, dragging'.layerId) # 0
          /\ dragging'.startX = lastEvent'.info.coordinate[1]
          /\ dragging'.startY = lastEvent'.info.coordinate[2]
          /\ dragging'.type \in {"resize", "rotate", "move"}
          /\ dragging'.type = "resize"
               => /\ dragging'.handle \in {"n", "s", "e", "w", "nw", "ne", "sw", "se"}
                  /\ dragging'.originalBounds
                       = BoundsOf(objects[FindIndex(objects, dragging'.layerId)])
          /\ dragging'.type = "rotate"
               => /\ dragging'.handle \in {"nw", "ne", "se", "sw"}
                  /\ dragging'.startRotation
                       = objects[FindIndex(objects, dragging'.layerId)].rotation
          /\ dragging'.type = "move" => dragging'.handle = Undefined]_vars

\* a drag-start on the second object, which lies elsewhere than the first,
\* began a resize with the bounds of the second
C21_Witness ==
  /\ lastEvent.handler = "dragStart"
  /\ dragging # Null
  /\ dragging.type = "resize"
  /\ dragging.layerId = "2"
  /\ Len(objects) = 2
  /\ dragging.originalBounds = BoundsOf(objects[2])
  /\ dragging.originalBounds # BoundsOf(objects[1])
  /\ <<dragging.startX, dragging.startY>> = lastEvent.info.coordinate

\* a drag-start began a rotate on the turned first object
C21_WitnessRotate ==
  /\ lastEvent.handler = "dragStart"
  /\ dragging # Null
  /\ dragging.type = "rotate"
  /\ dragging.startRotation = <<90, 1>>


(* Properties of the resize cursor (SpecZone) *)
\* the eight handles in clockwise order, a quarter turn being two places
HandleRing == <<"n", "ne", "e", "se", "s", "sw", "w", "nw">>

HandleAdvanced(handle, turns) ==
  HandleRing[(((CHOOSE i \in 1..8 : HandleRing[i] = handle) - 1 + 2 * turns) % 8) + 1]

\* round(rotation / 90) mod 4
QuarterTurns(rotation) == MathRound(QDiv(rotation, <<90, 1>>)) % 4

\* the kind of a handle of an object that is not turned
KindUnrotated(handle, invertedY) == getRotationAwareResizeCursor(handle, <<0, 1>>, invertedY)

CursorRotations ==
  {QI(d) : d \in {0, 1, 44, 45, 46, 89, 90, 134, 135, 136, 180, 224, 225, 270, 314, 315, 316,
                  359, 360, 405, 450, 720, -1, -44, -45, -46, -90, -135, -180, -270, -360, -405}}
    \cup Rotations

KindFollowsQuarterTurns(handle, invertedY, kind, turns) ==
  /\ kind = KindUnrotated(HandleAdvanced(handle, turns), invertedY)
  /\ turns \in {0, 2} => kind = KindUnrotated(handle, invertedY)
  /\ turns \in {1, 3} =>
       /\ handle \in {"n", "s"} => kind = "ew-resize"
       /\ handle \in {"e", "w"} => kind = "ns-resize"
       /\ handle \in {"nw", "ne", "se", "sw"} =>
            /\ kind \in {"nesw-resize", "nwse-resize"}
            /\ kind # KindUnrotated(handle, invertedY)

HoveredResize ==
  /\ dragging = Null
  /\ hoveredHandle # Null
  /\ hoveredHandle.zoneType = "resize"
  /\ FindIndex(objects, hoveredHandle.layerId) # 0

\* C22: the resize cursor of a handle of an object turned by a rotation is
\* the kind of the handle advanced by round(rotation / 90) mod 4 quarter
\* turns: with an even number of quarter turns it is the kind of the
\* unrotated object, with an odd number n and s give ew-resize, e and w give
\* ns-resize and the two diagonal kinds are swapped (computed for every
\* handle and rotation of CursorRotations before the first hover); and the
\* cursor shown over a resize zone is that kind for the hovered object's
\* rotation
C22_ResizeCursorQuarterTurns ==
  /\ hovers = 0 =>
     \A handle \in {HandleRing[i] : i \in 1..8}, invertedY \in BOOLEAN :
       \A rotation \in CursorRotations \cup {objects[i].rotation : i \in 1..Len(objects)} :
         KindFollowsQuarterTurns(handle, invertedY, getRotationAwareResizeCursor(handle, rotation, invertedY), QuarterTurns(rotation))
  /\ HoveredResize =>
       Cursor = KindUnrotated(HandleAdvanced(hoveredHandle.handleType, QuarterTurns(objects[FindIndex(objects, hoveredHandle.layerId)].rotation)), config.invertedYCoordinates)

C22_Witness ==
  /\ lastEvent.handler = "hover"
  /\ HoveredResize
  /\ hoveredHandle.handleType = "n"
  /\ objects[FindIndex(objects, hoveredHandle.layerId)].rotation = <<90, 1>>
  /\ Cursor = "ew-resize"

C22_WitnessDiagonal ==
  /\ lastEvent.handler = "hover"
  /\ HoveredResize
  /\ hoveredHandle.handleType = "nw"
  /\ QuarterTurns(objects[FindIndex(objects, hoveredHandle.layerId)].rotation) = 3
  /\ Cursor = "nwse-resize"

C22_WitnessHalfTurn ==
  /\ lastEvent.handler = "hover"
  /\ HoveredResize
  /\ hoveredHandle.handleType = "e"
  /\ QuarterTurns(objects[FindIndex(objects, hoveredHandle.layerId)].rotation) = 2
  /\ Cursor = "ew-resize"


(* Properties of the rotate zones and the inside of the object (SpecZone) *)
\* the object drawn in by margin on each side, about the same centre
Shrunk(obj, margin) ==
  [obj EXCEPT !.x = QAdd(obj.x, margin), !.y = QAdd(obj.y, margin),
              !.width = QSub(obj.width, QMul(<<2, 1>>, margin)),
              !.height = QSub(obj.height, QMul(<<2, 1>>, margin))]

\* the pointer of the last hover is inside the object, margin or more away
\* from each of its edges
PointerInsideBy(obj, margin) ==
  /\ QLt(QMul(<<2, 1>>, margin), obj.width)
  /\ QLt(QMul(<<2, 1>>, margin), obj.height)
  /\ isPointInsideLayer(Shrunk(obj, margin), lastEvent.info.coordinate[1], lastEvent.info.coordinate[2])

HoveredRotate ==
  /\ lastEvent.handler = "hover"
  /\ lastEvent.info.coordinate # Null
  /\ hoveredHandle # Null
  /\ hoveredHandle.zoneType = "rotate"
  /\ FindIndex(objects, hoveredHandle.layerId) # 0

\* C23: a pointer inside the rotated rectangle of the selected object is
\* never classified as Rotate
C23_RotateOnlyOutside ==
  HoveredRotate => ~isPointInsideLayer(objects[FindIndex(objects, hoveredHandle.layerId)], lastEvent.info.coordinate[1], lastEvent.info.coordinate[2])

\* a pointer a hundredth of a unit or more inside every edge of the object,
\* classified as the rotate zone of a corner
C23_Witness ==
  /\ HoveredRotate
  /\ config = DEFAULT_CONFIG
  /\ objects[1].rotation = <<0, 1>>
  /\ PointerInsideBy(objects[FindIndex(objects, hoveredHandle.layerId)], <<1, 100>>)


(* Properties of the overlay (SpecOverlay) *)
Rendered == lastEvent.handler = "generateLayers"

Selected == selectedOf(objects)

\* the eight handles of each selected object, at its corners and the
\* midpoints of its edges, of the fallback size
FallbackHandles(handles) ==
  /\ Len(handles) = 8 * Len(Selected)
  /\ \A k \in 1..Len(handles) :
       /\ handles[k].layerId = Selected[((k - 1) \div 8) + 1].id
       /\ handles[k].worldSize = <<1, 500>>
       /\ \E h \in {-1, 0, 1} \X {-1, 0, 1} :
            /\ h # <<0, 0>>
            /\ handles[k].position = FramePoint(Selected[((k - 1) \div 8) + 1], h[1], h[2], <<0, 1>>)

\* C24 (as the source has it): with no canvas element generateLayers returns
\* no borders and no resize or rotate zone polygons; the handles are still
\* generated, eight for each selected object at its corners and the
\* midpoints of its edges, with the fallback worldSize 0.002
C24_NoViewportOnlyHandles ==
  (Rendered /\ canvasElement = Null) =>
     /\ lastEvent.layers.borders = <<>>
     /\ lastEvent.layers.resizeZones = <<>>
     /\ lastEvent.layers.rotateZones = <<>>
     /\ FallbackHandles(lastEvent.layers.handles)

\* C24 as stated: with no canvas element generateLayers returns no borders,
\* no resize or rotate zone polygons and no handles
C24_NoViewportNoOverlay ==
  (Rendered /\ canvasElement = Null) =>
     /\ lastEvent.layers.borders = <<>>
     /\ lastEvent.layers.resizeZones = <<>>
     /\ lastEvent.layers.rotateZones = <<>>
     /\ lastEvent.layers.handles = <<>>

C24_Witness ==
  /\ Rendered
  /\ lastEvent.lib
  /\ canvasElement = Null
  /\ Len(Selected) = 2
  /\ objects[1].rotation = <<90, 1>>
  /\ lastEvent.layers.borders = <<>>
  /\ Len(lastEvent.layers.handles) = 16

C24_WitnessNoneSelected ==
  /\ Rendered
  /\ canvasElement = Null
  /\ Len(Selected) = 0
  /\ lastEvent.layers.handles = <<>>


\* the object a zone or a border of the overlay is generated for
OverlayObject(item) == objects[FindIndex(objects, item.layerId)]

\* polygon, seen on the screen, is the rectangle of obj moved out by pixels
\* on each side: each corner of the rectangle is pixels away from the two
\* edges of the polygon that meet at its own corner, and pixels times the
\* square root of 2 away from that corner
ExpandedOnScreen(poly, rect, pixels) ==
  \A k \in 1..4 :
    /\ edgeDistanceSq(rect[k], poly, k) = QMul(pixels, pixels)
    /\ edgeDistanceSq(rect[k], poly, ((k + 2) % 4) + 1) = QMul(pixels, pixels)
    /\ cornerDistanceSq(rect[k], poly, k) = QMul(<<2, 1>>, QMul(pixels, pixels))

ExpandedBy(polygon, obj, pixels) ==
  ExpandedOnScreen(projectCorners(polygon, viewState, canvasElement),
                   projectCorners(getRotatedPolygon(obj), viewState, canvasElement), pixels)

ZonesExpandedBy(zones, pixels) ==
  \A i \in 1..Len(zones) : ExpandedBy(zones[i].polygon, OverlayObject(zones[i]), pixels)

BordersExpandedBy(borders, pixels) ==
  \A i \in 1..Len(borders) : ExpandedBy(borders[i].polygon[1], OverlayObject(borders[i]), pixels)

OverlayAtScreenScale(layers) ==
  /\ ZonesExpandedBy(layers.resizeZones, config.resizeZoneDistance)
  /\ ZonesExpandedBy(layers.rotateZones, config.rotateZoneDistance)
  /\ BordersExpandedBy(layers.borders, config.borderWidth)

\* C25: at every zoom level the resize (rotate) zone polygon the generators
\* that scale by Math.pow(2, zoom) make for a selected object is, projected
\* by worldToScreen, the rectangle of the object moved out by
\* resizeZoneDistance (rotateZoneDistance) pixels on each side, and the
\* outer ring of the border by borderWidth pixels
C25_OverlayAtScreenScale ==
  (Rendered /\ ~lastEvent.lib /\ canvasElement # Null) => OverlayAtScreenScale(lastEvent.layers)

\* the generators of lib/utils/dataGeneration, which scale as worldToScreen
\* does, make the polygons the pixels away
OverlayOfLibAtScreenScale ==
  (Rendered /\ lastEvent.lib /\ canvasElement # Null) => OverlayAtScreenScale(lastEvent.layers)

\* a resize zone drawn 9.375 pixels, not 6, away from the object
C25_Witness ==
  /\ Rendered
  /\ ~lastEvent.lib
  /\ canvasElement # Null
  /\ viewState.zoom = 4
  /\ config.resizeZoneDistance = <<6, 1>>
  /\ Len(lastEvent.layers.resizeZones) > 0
  /\ ZonesExpandedBy(lastEvent.layers.resizeZones, <<75, 8>>)


(* Properties of the axis-aligned resize (SpecAxis) *)
\* the last handler was a drag-update of a resize by handle, and emitted an update
AxisResized(handle) ==
  /\ lastEvent.handler = "drag"
  /\ dragging # Null
  /\ dragging.type = "resize"
  /\ dragging.handle = handle
  /\ Len(notes) = 1
  /\ notes[1].kind = "update"

\* the emitted rectangle has a horizontal edge at y
EdgeAtY(changes, y) == y \in {changes.y, QAdd(changes.y, changes.height)}

\* the emitted rectangle has a vertical edge at x
EdgeAtX(changes, x) == x \in {changes.x, QAdd(changes.x, changes.width)}

\* C26: after a drag-update of the axis-aligned resize the emitted rectangle
\* has an edge at originalBounds.y + originalBounds.height with handle n, at
\* originalBounds.y with handle s, at originalBounds.x + originalBounds.width
\* with handle w and at originalBounds.x with handle e, wherever the pointer is
C26_OppositeEdgeFixed ==
  /\ AxisResized("n") => EdgeAtY(notes[1].changes, QAdd(dragging.originalBounds.y, dragging.originalBounds.height))
  /\ AxisResized("s") => EdgeAtY(notes[1].changes, dragging.originalBounds.y)
  /\ AxisResized("w") => EdgeAtX(notes[1].changes, QAdd(dragging.originalBounds.x, dragging.originalBounds.width))
  /\ AxisResized("e") => EdgeAtX(notes[1].changes, dragging.originalBounds.x)

\* handle n dragged beyond the bottom edge: the emitted rectangle starts at
\* the pointer and lies beyond the bottom edge, away from it
C26_Witness ==
  /\ AxisResized("n")
  /\ ~keyPressed.shift
  /\ QLt(QAdd(dragging.originalBounds.y, dragging.originalBounds.height), lastEvent.info.coordinate[2])
  /\ notes[1].changes.y = lastEvent.info.coordinate[2]
  /\ QLt(QAdd(dragging.originalBounds.y, dragging.originalBounds.height), notes[1].changes.y)

\* the handles s, e and w keep their opposite edge when the pointer is
\* beyond it and the minimum size is not reached
AxisOtherEdgesFixed ==
  /\ AxisResized("s") => EdgeAtY(notes[1].changes, dragging.originalBounds.y)
  /\ AxisResized("e") => EdgeAtX(notes[1].changes, dragging.originalBounds.x)
  /\ (AxisResized("w") /\ QLt(config.minWidth, notes[1].changes.width)) =>
       EdgeAtX(notes[1].changes, QAdd(dragging.originalBounds.x, dragging.originalBounds.width))


(* Properties of the notifications of sessions (SpecEvents) *)
\* C27: in every sequence of drag-start, drag-update and drag-end events the
\* 'transform started' and 'transform ended' notifications alternate,
\* beginning with 'transform started': after every event the number of
\* 'transform started' emitted is that of 'transform ended', or one more
C27_StartEndAlternate == outstanding \in {0, 1}

\* a second drag-start while a session is active: two 'transform started'
\* with no 'transform ended' between them
C27_Witness ==
  /\ lastEvent.handler = "dragStart"
  /\ Len(notes) = 1
  /\ notes[1].kind = "start"
  /\ dragging # Null
  /\ sessions = 2
  /\ outstanding = 2

\* the hook holds one session or none, and a 'transform ended' is emitted
\* only for a session that was begun
AtMostOneSession ==
  /\ outstanding >= 0
  /\ dragging # Null => outstanding >= 1


(* Properties of a move whose updates the host applies late (Spec) *)
\* every update the move session emitted has been applied by now
AllApplied == \A n \in 1..Len(pending) : pending[n].kind # "update"

\* C28: whenever the host applies the updates of a move session - each
\* before the next drag-update or only after later ones - the object lies,
\* once all of them are applied, at its drag-start position displaced by
\* (last pointer - drag-start pointer)
C28_MoveEndsAtPointer ==
  (/\ dragging # Null
   /\ dragging.type = "move"
   /\ gesture.updates > 0
   /\ AllApplied
   /\ GestureIndex # 0)
    => /\ objects[GestureIndex].x = QAdd(gesture.object.x, QSub(gesture.last[1], gesture.start[1]))
       /\ objects[GestureIndex].y = QAdd(gesture.object.y, QSub(gesture.last[2], gesture.start[2]))

\* two updates of a move, the second computed before the first was applied,
\* and both applied: the object is not where the pointer took it
C28_Witness ==
  /\ dragging # Null
  /\ dragging.type = "move"
  /\ gesture.updates = 2
  /\ gesture.lagged
  /\ AllApplied
  /\ GestureIndex # 0
  /\ gesture.last # gesture.start
  /\ objects[GestureIndex].x # QAdd(gesture.object.x, QSub(gesture.last[1], gesture.start[1]))


(* Properties of the handle names and the scale origin (SpecResize) *)
\* the corners of bounds, not turned, in the order of getRotatedPolygon
BoundsPolygon(bounds) ==
  getRotatedPolygon([x |-> bounds.x, y |-> bounds.y, width |-> bounds.width,
                     height |-> bounds.height, rotation |-> <<0, 1>>])

\* the index two places on from i, and the index after it, on the ring 1..4
OppositeIndex(i) == ((i + 1) % 4) + 1
NextIndex(i) == (i % 4) + 1

MidwayOf(a, b) == <<QHalf(QAdd(a[1], b[1])), QHalf(QAdd(a[2], b[2]))>>

\* the scale origin of each handle name is the point of the polygon opposite
\* the corner or edge the classifier gives that name
OriginOpposite(origin, handle, poly) ==
  \A i \in 1..4 :
    /\ handle = cornerNames[i] => origin = poly[OppositeIndex(i)]
    /\ handle = edgeNames[i] =>
         origin = MidwayOf(poly[OppositeIndex(i)], poly[NextIndex(OppositeIndex(i))])

ResizeStarted ==
  /\ lastEvent.handler = "dragStart"
  /\ dragging # Null
  /\ dragging.type = "resize"
  /\ gesture.object # Null

\* the squared distances on the screen, in pixels, from the pointer that
\* started the session to corner i of the object and to the edge from corner
\* i to the next
StartToCornerSq(i) ==
  QMul(squaredLength(QSub(lastEvent.info.coordinate[1], getRotatedPolygon(gesture.object)[i][1]),
                     QSub(lastEvent.info.coordinate[2], getRotatedPolygon(gesture.object)[i][2])),
       QMul(PixelsPerUnit(viewState.zoom), PixelsPerUnit(viewState.zoom)))

StartToEdgeSq(i) ==
  QMul(distanceToLineSegmentSq(lastEvent.info.coordinate[1], lastEvent.info.coordinate[2],
                               getRotatedPolygon(gesture.object)[i][1],
                               getRotatedPolygon(gesture.object)[i][2],
                               getRotatedPolygon(gesture.object)[NextIndex(i)][1],
                               getRotatedPolygon(gesture.object)[NextIndex(i)][2]),
       QMul(PixelsPerUnit(viewState.zoom), PixelsPerUnit(viewState.zoom)))

ResizeReachSq == QMul(config.resizeZoneDistance, config.resizeZoneDistance)

\* C29: the handle of a resize session is the name the classifier gives a
\* corner of the object's rotated polygon at index i that is in reach of the
\* pointer, or the edge from corner i to the next that is in reach, and the
\* scale origin chosen for that handle is the corner of originalBounds at
\* index i + 2 (mod 4), for an edge the midpoint of the parallel edge
C29_HandleOppositeOrigin ==
  ResizeStarted =>
    /\ OriginOpposite(toArray(getScaleOriginPoint(dragging.handle, dragging.originalBounds)), dragging.handle, BoundsPolygon(dragging.originalBounds))
    /\ \E i \in 1..4 :
         \/ dragging.handle = cornerNames[i] /\ QLe(StartToCornerSq(i), ResizeReachSq)
         \/ dragging.handle = edgeNames[i] /\ QLe(StartToEdgeSq(i), ResizeReachSq)

\* a resize begun on the first corner of a turned object: the handle is nw
\* and the origin the third corner of originalBounds
C29_Witness ==
  /\ ResizeStarted
  /\ gesture.object.rotation = Q(3687, 100)
  /\ lastEvent.info.coordinate = getRotatedPolygon(gesture.object)[1]
  /\ dragging.handle = "nw"
  /\ toArray(getScaleOriginPoint("nw", dragging.originalBounds)) = BoundsPolygon(dragging.originalBounds)[3]

\* a resize begun on the middle of the second edge of a turned object
C29_WitnessEdge ==
  /\ ResizeStarted
  /\ gesture.object.rotation = <<90, 1>>
  /\ lastEvent.info.coordinate = MidwayOf(getRotatedPolygon(gesture.object)[2], getRotatedPolygon(gesture.object)[3])
  /\ dragging.handle = "e"
  /\ toArray(getScaleOriginPoint("e", dragging.originalBounds)) = MidwayOf(BoundsPolygon(dragging.originalBounds)[4], BoundsPolygon(dragging.originalBounds)[1])


(* Properties of the corner handles of an object small on screen (SpecZone) *)
\* the squared distance on the screen, in pixels, from the pointer of the
\* last hover to corner i of the object
PointerToCornerSq(obj, i) ==
  QMul(squaredLength(QSub(lastEvent.info.coordinate[1], getRotatedPolygon(obj)[i][1]),
                     QSub(lastEvent.info.coordinate[2], getRotatedPolygon(obj)[i][2])),
       QMul(PixelsPerUnit(viewState.zoom), PixelsPerUnit(viewState.zoom)))

\* the corners of the object within the resize distance of the pointer
CornersInReach(obj) ==
  {i \in 1..4 : QLe(PointerToCornerSq(obj, i),
                    QMul(config.resizeZoneDistance, config.resizeZoneDistance))}

HoveredNearCorners ==
  /\ lastEvent.handler = "hover"
  /\ lastEvent.info.coordinate # Null
  /\ dragging = Null
  /\ objects[1].selected
  /\ Cardinality(CornersInReach(objects[1])) > 1

\* the hovered handle is that of corner i of the object
HandleOfCorner(i) ==
  /\ hoveredHandle # Null
  /\ hoveredHandle.zoneType = "resize"
  /\ hoveredHandle.handleType = cornerNames[i]

\* C30: with the pointer within the resize distance of more than one corner
\* of the selected object on the screen, the hovered handle is that of a
\* corner no farther from the pointer than any other corner
C30_NearestCorner ==
  HoveredNearCorners =>
    \E i \in 1..4 :
      /\ HandleOfCorner(i)
      /\ \A j \in 1..4 : QLe(PointerToCornerSq(objects[1], i), PointerToCornerSq(objects[1], j))

\* the pointer on the third corner of the tiny object, all four corners
\* within the resize distance: the hovered handle is that of the first corner
C30_Witness ==
  /\ HoveredNearCorners
  /\ objects[1].rotation = <<0, 1>>
  /\ CornersInReach(objects[1]) = 1..4
  /\ QIsZero(PointerToCornerSq(objects[1], 3))
  /\ HandleOfCorner(1)

\* the returned handle is that of the first corner in reach, in the order
\* nw, ne, se, sw
FirstCornerInReach ==
  HoveredNearCorners =>
    \E i \in CornersInReach(objects[1]) :
      /\ HandleOfCorner(i)
      /\ \A j \in CornersInReach(objects[1]) : i <= j

====
